---- MODULE Spec2Model ----
(***************************************************************************)
(* A model of the documentation-retrieval agent (vishnudut/agent-doc):     *)
(*   - Context7Client.resolve_library / resolve_library_with_llm           *)
(*     (src/context_client.py), the multi-candidate library resolver;      *)
(*   - get_library_docs (src/agent_mcp.py), the staged pipeline            *)
(*     memory search -> resolve -> fetch -> store -> summary trace;        *)
(*   - the collaborating clients as far as the pipeline observes them      *)
(*     (src/memmachine_client.py, src/opik_client.py);                     *)
(*   - MemMachineClient.build_context_prompt called directly.              *)
(*                                                                         *)
(* Text is modelled as sequences of one-character strings, so that the     *)
(* string operations of the code (lower, replace, split, startswith, the   *)
(* regular expressions) are computed and not assumed.                      *)
(***************************************************************************)
EXTENDS Integers, Sequences, FiniteSets, TLC

VARIABLES
    env,      \* the process-scoped client handles and the resolver's backend key
    pc,       \* position of the get_library_docs run
    req,      \* the arguments of the run: library_name, topic, user_id
    similar,  \* similar_queries, the record search_similar_queries returned
    lib,      \* what resolve_library did in the run (result, calls made)
    docs,     \* what get_docs returned in the run
    store,    \* store_success of the run
    timed,    \* the durations measured so far in the run
    ops,      \* the external operations issued so far, in order
    out,      \* the value the run returned to its caller
    rcall,    \* the last direct call of resolve_library (as src/test.py makes)
    net,      \* what the collaborators answered to the run's calls
    pcall,    \* the last direct calls of build_context_prompt
    runs,     \* the runs of get_library_docs a server has in progress at once
    lcall     \* the last direct call of resolve_library_with_llm

vars == <<env, pc, req, similar, lib, docs, store, timed, ops, out, rcall, net,
          pcall, runs, lcall>>

(***************************************************************************)
(* Bounds                                                                  *)
(***************************************************************************)
\* The longest source text drawn line by line (lines per response text).
MaxLines == 3

\* The longest episodic and profile lists of a direct build_context_prompt call.
MaxEpisodes == 4

MaxProfiles == 2

(***************************************************************************)
(* Characters and strings                                                  *)
(***************************************************************************)
Digits == <<"0", "1", "2", "3", "4", "5", "6", "7", "8", "9">>

IsDigit(c) == \E i \in 1..10 : Digits[i] = c

DigitVal(c) == (CHOOSE i \in 1..10 : Digits[i] = c) - 1

UpperCase == {"A", "F"}

LowerLetters == {"a", "b", "c", "d", "e", "f", "i", "s", "t", "w", "x", "z"}

\* str.lower() on the characters the model uses.
Lower(c) == CASE c = "A" -> "a"
              [] c = "F" -> "f"
              [] OTHER -> c

\* The regular expression class [\w\-\/] of the identifier pattern.
IsIdChar(c) == \/ c \in LowerLetters
               \/ c \in UpperCase
               \/ IsDigit(c)
               \/ c \in {"_", "-", "/"}

Min(a, b) == IF a < b THEN a ELSE b

StartsWith(s, p) == /\ Len(s) >= Len(p)
                    /\ \A i \in 1..Len(p) : s[i] = p[i]

\* Mutant of Normalize: the lower() call is missing.
NormalizeKeepsCase(s) ==
    LET low == [i \in 1..Len(s) |-> s[i]]
        Keep(c) == c \notin {"-", "_"}
    IN  SelectSeq(low, Keep)

\* name.lower().replace("-", "").replace("_", "")
Normalize(s) ==
    LET low == [i \in 1..Len(s) |-> Lower(s[i])]
        Keep(c) == c \notin {"-", "_"}
    IN  SelectSeq(low, Keep)

\* lib_id.split("/")[-1]: what follows the last "/", the whole string without one.
LastSegment(s) ==
    LET slashes == {i \in 1..Len(s) : s[i] = "/"}
        last == IF slashes = {} THEN 0
                ELSE CHOOSE i \in slashes : \A j \in slashes : j <= i
    IN  SubSeq(s, last + 1, Len(s))

\* repo_name = lib_id.split("/")[-1].lower().replace("-", "").replace("_", "")
RepoName(id) == Normalize(LastSegment(id))

\* repo_name == library_lower
ExactMatch(q, id) == RepoName(id) = Normalize(q)

WebsitesPrefix == <<"/", "w", "e", "b", "s", "i", "t", "e", "s", "/">>

IsWebsite(id) == StartsWith(id, WebsitesPrefix)

(***************************************************************************)
(* Candidate extraction: re.findall over the text of the source response   *)
(***************************************************************************)
\* Mutant of LineMatches: whatever follows the literal is taken, "/" or not.
LineMatchesAnyRest(l) == l.announce /\ Len(l.rest) >= 1 /\ IsIdChar(l.rest[1])

\* A line of the response text is [announce, rest]: whether it holds the literal
\* "- Context7-compatible library ID: ", and the characters that follow it.
\* The group (\/[\w\-\/]+) matches when a "/" and one more class character follow.
LineMatches(l) == /\ l.announce
                  /\ Len(l.rest) >= 2
                  /\ l.rest[1] = "/"
                  /\ IsIdChar(l.rest[2])

\* The group is greedy: the longest run of class characters from the "/".
ExtractId(rest) ==
    LET n == CHOOSE k \in 0..Len(rest) :
                 /\ \A i \in 1..k : IsIdChar(rest[i])
                 /\ (k < Len(rest) => ~IsIdChar(rest[k + 1]))
    IN  SubSeq(rest, 1, n)

\* Mutant of FindAll: a repeated identifier is kept once.
FindAllDistinct(text) ==
    LET sel == SelectSeq(text, LineMatches)
        ids == [i \in 1..Len(sel) |-> ExtractId(sel[i].rest)]
        First(i) == \A j \in 1..(i - 1) : ids[j] # ids[i]
        keep == {i \in 1..Len(ids) : First(i)}
        Nth(k) == CHOOSE i \in keep : Cardinality({j \in keep : j <= i}) = k
    IN  [k \in 1..Cardinality(keep) |-> ids[Nth(k)]]

\* matches = re.findall(pattern, libraries_text): every match, in text order.
FindAll(text) ==
    LET sel == SelectSeq(text, LineMatches)
    IN  [i \in 1..Len(sel) |-> ExtractId(sel[i].rest)]

\* Mutant of NonWebsiteMatches: the filter alone, without the "all websites" rule.
NonWebsiteOnly(matches) ==
    LET Keep(m) == ~IsWebsite(m)
    IN  SelectSeq(matches, Keep)

\* Mutant of NonWebsiteMatches: no filtering at all.
NoWebsiteFilter(matches) == matches

\* non_website_matches: the matches not starting with "/websites/", all of them
\* when that leaves none.
NonWebsiteMatches(matches) ==
    LET Keep(m) == ~IsWebsite(m)
        kept == SelectSeq(matches, Keep)
    IN  IF kept = <<>> THEN matches ELSE kept

(***************************************************************************)
(* The resolver's decisions                                                *)
(***************************************************************************)
\* What a call decided: kind "id" (an identifier returned), "none" (None
\* returned) or "raise" (an exception left the call); method names the return
\* statement taken.
Decision(kind, id, method) == [kind |-> kind, id |-> id, method |-> method]

NoId == <<>>

\* Mutant of FirstExact: the loop keeps the last exact match, not the first.
FirstExactLast(q, matches) ==
    LET hits == {i \in 1..Len(matches) : ExactMatch(q, matches[i])}
    IN  IF hits = {} THEN 0 ELSE CHOOSE i \in hits : \A j \in hits : i >= j

\* for lib_id in matches: if repo_name == library_lower: return lib_id
\* The position of the first exact match, 0 when the loop ends without one.
FirstExact(q, matches) ==
    LET hits == {i \in 1..Len(matches) : ExactMatch(q, matches[i])}
    IN  IF hits = {} THEN 0 ELSE CHOOSE i \in hits : \A j \in hits : i <= j

\* Mutant of InlineFallback: the exact-match loop is missing.
InlineFirstOnly(q, ws) == Decision("id", ws[1], "first_fallback")

\* resolve_library without arbitration: the exact-match loop, then the first.
InlineFallback(q, ws) ==
    LET i == FirstExact(q, ws)
    IN  IF i > 0 THEN Decision("id", ws[i], "exact_fallback")
        ELSE Decision("id", ws[1], "first_fallback")

\* Mutant of LlmFinalFallback: the last candidate, not the first.
LlmFinalFallbackLast(q, matches) ==
    LET i == FirstExact(q, matches)
    IN  IF i > 0 THEN Decision("id", matches[i], "exact_fallback")
        ELSE IF matches = <<>> THEN Decision("raise", NoId, "IndexError")
        ELSE Decision("id", matches[Len(matches)], "first_fallback")

\* resolve_library_with_llm's final fallback. The warning logged before the last
\* return formats matches[0], so an empty list raises IndexError there.
LlmFinalFallback(q, matches) ==
    LET i == FirstExact(q, matches)
    IN  IF i > 0 THEN Decision("id", matches[i], "exact_fallback")
        ELSE IF matches = <<>> THEN Decision("raise", NoId, "IndexError")
        ELSE Decision("id", matches[1], "first_fallback")

\* if not self.openai_api_key: return matches[0] if matches else None
NoKeyReturn(matches) ==
    IF matches = <<>> THEN Decision("none", NoId, "none")
    ELSE Decision("id", matches[1], "first_fallback")

TopLimit == 15

\* Mutant of TopMatches: every candidate is presented, however many there are.
TopMatchesAll(matches) == matches

\* top_matches = matches[:15]
TopMatches(matches) == SubSeq(matches, 1, Min(TopLimit, Len(matches)))

NoNumber == -1

\* re.search(r'\d+', answer) and int(...): the first maximal run of digits as a
\* number, NoNumber when the answer holds no digit.
ParseNumber(answer) ==
    LET ds == {i \in 1..Len(answer) : IsDigit(answer[i])}
    IN  IF ds = {} THEN NoNumber
        ELSE LET a == CHOOSE i \in ds : \A j \in ds : i <= j
                 b == CHOOSE k \in a..Len(answer) :
                          /\ \A i \in a..k : IsDigit(answer[i])
                          /\ (k < Len(answer) => ~IsDigit(answer[k + 1]))
                 val[i \in (a - 1)..b] ==
                     IF i = a - 1 THEN 0 ELSE 10 * val[i - 1] + DigitVal(answer[i])
             IN  val[b]

\* Mutant of LlmZero: "no good match" returns the first candidate at once.
LlmZeroFirst(q, matches) == Decision("id", matches[1], "first_fallback")

\* Mutant of LlmZero: "no good match" without an exact match returns None.
LlmZeroNone(q, matches) ==
    LET i == FirstExact(q, matches)
    IN  IF i > 0 THEN Decision("id", matches[i], "exact_fallback")
        ELSE Decision("none", NoId, "none")

\* selected_index == -1 (the backend answered 0): the exact-match loop over
\* matches, then matches[0]. Called with matches non-empty.
LlmZero(q, matches) ==
    LET i == FirstExact(q, matches)
    IN  IF i > 0 THEN Decision("id", matches[i], "exact_fallback")
        ELSE Decision("id", matches[1], "first_fallback")

\* Mutant of LlmValid: the backend's pick is trusted without verification.
LlmValidTrusted(q, matches, selected) == Decision("id", selected, "llm_unverified")

\* Mutant of LlmValid: the exact-match loop runs before the pick is verified.
LlmValidExactFirst(q, matches, selected) ==
    LET i == FirstExact(q, matches)
    IN  IF i > 0 THEN Decision("id", matches[i], "exact_fallback")
        ELSE Decision("id", selected, "llm_unverified")

\* 0 <= selected_index < len(top_matches): the pick when it matches exactly,
\* else the first exact match of matches, else the pick.
LlmValid(q, matches, selected) ==
    IF ExactMatch(q, selected) THEN Decision("id", selected, "llm_verified")
    ELSE LET i == FirstExact(q, matches)
         IN  IF i > 0 THEN Decision("id", matches[i], "exact_fallback")
             ELSE Decision("id", selected, "llm_unverified")

(***************************************************************************)
(* Context7Client.resolve_library_with_llm and resolve_library             *)
(***************************************************************************)
\* An answer of the arbitration backend: kind "import_error" (the openai package
\* cannot be imported), "api_error" (the completion call raises, or its reply has
\* no content to strip) or "text" (the stripped reply).
LlmOutcome(kind, text) == [kind |-> kind, text |-> text]

\* Mutant of LlmCalls: a completion call that raised is issued once more.
LlmCallsRetried(llm) ==
    CASE llm.kind = "import_error" -> 0
      [] llm.kind = "api_error" -> 2
      [] OTHER -> 1

\* The completion calls a backend outcome stands for: none when the import fails.
LlmCalls(llm) == IF llm.kind = "import_error" THEN 0 ELSE 1

\* resolve_library_with_llm(library_name, matches): the decision, and the
\* completion calls made for it.
ResolveLibraryWithLlm(q, matches, key, llm) ==
    IF ~key THEN [d |-> NoKeyReturn(matches), llmCalls |-> 0]
    ELSE LET n == IF llm.kind = "text" THEN ParseNumber(llm.text) ELSE NoNumber
             top == TopMatches(matches)
             d == IF n = NoNumber THEN LlmFinalFallback(q, matches)
                  ELSE IF n - 1 = -1
                       THEN IF matches = <<>>
                            \* matches[0] raises inside the try: caught, fall through
                            THEN LlmFinalFallback(q, matches)
                            ELSE LlmZero(q, matches)
                  ELSE IF 0 <= n - 1 /\ n - 1 < Len(top)
                       THEN LlmValid(q, matches, top[n])
                  ELSE LlmFinalFallback(q, matches)
         IN  [d |-> d, llmCalls |-> LlmCalls(llm)]

\* A response of the source service to resolve-library-id: kind
\*   "transport_error"  requests raises a RequestException (timeout, connection
\*                      error, HTTP error status),
\*   "no_content"       the body has no result.content,
\*   "content_empty"    content is an empty list or no list,
\*   "item_not_object"  content[0] is not an object (content[0].get raises),
\*   "text_not_string"  content[0].text is not a string (re.findall raises),
\*   "text"             content[0].text is the given sequence of lines.
Response(kind, text) == [kind |-> kind, text |-> text]

RaisingKinds == {"item_not_object", "text_not_string"}

\* Mutant of UsesLlm: the backend is consulted whenever a key is configured.
UsesLlmIgnoringFlag(useLlm, key) == key

\* if use_llm and self.openai_api_key
UsesLlm(useLlm, key) == useLlm /\ key

\* Mutant of SingleMatch: the single-match rule never applies.
SingleMatchNever(ws) == FALSE

\* if len(non_website_matches) == 1
SingleMatch(ws) == Len(ws) = 1

\* Mutant of NotFound: the call raises instead of returning None.
NotFoundRaises == Decision("raise", NoId, "LookupError")

\* logger.warning("Could not resolve library"); return None
NotFound == Decision("none", NoId, "none")

\* Mutant of TransportFailure: the RequestException is raised again.
TransportFailureRaises == Decision("raise", NoId, "RequestException")

\* except requests.exceptions.RequestException: return None
TransportFailure == Decision("none", NoId, "none")

\* resolve_library(library_name, use_llm): what the call did. matches and ws are
\* the candidate list and the working set it computed (empty when it computed
\* none), reached says whether resolve_library_with_llm was entered.
ResolveLibrary(q, useLlm, key, resp, llm) ==
    LET matches == IF resp.kind = "text" THEN FindAll(resp.text) ELSE <<>>
        ws == IF matches # <<>> THEN NonWebsiteMatches(matches) ELSE <<>>
        base == [matches |-> matches, ws |-> ws, httpCalls |-> 1]
        With(d, reached, calls) ==
            base @@ [kind |-> d.kind, id |-> d.id, method |-> d.method,
                     reached |-> reached, llmCalls |-> calls]
    IN  IF resp.kind = "transport_error"
          THEN With(TransportFailure, FALSE, 0)
        ELSE IF resp.kind \in RaisingKinds
          THEN With(Decision("raise", NoId,
                             IF resp.kind = "item_not_object"
                             THEN "AttributeError" ELSE "TypeError"), FALSE, 0)
        ELSE IF matches = <<>>
          THEN With(NotFound, FALSE, 0)
        ELSE IF SingleMatch(ws)
          THEN With(Decision("id", ws[1], "single"), FALSE, 0)
        ELSE IF Len(ws) > 1
          THEN IF UsesLlm(useLlm, key)
               THEN LET r == ResolveLibraryWithLlm(q, ws, key, llm)
                    IN  With(r.d, TRUE, r.llmCalls)
               ELSE With(InlineFallback(q, ws), FALSE, 0)
        ELSE With(NotFound, FALSE, 0)

(***************************************************************************)
(* The inputs the model draws                                              *)
(***************************************************************************)
Q_fa == <<"f", "a">>
Q_F_a == <<"F", "_", "a">>
Q_fb == <<"f", "b">>
Q_dash == <<"-">>

\* library_name
Queries == {Q_fa, Q_F_a, Q_fb, Q_dash}

Line(announce, rest) == [announce |-> announce, rest |-> rest]

\* "/a/fa", "/websites/fa" and "/b/F-a" announced; "/c/f_b zz" announced, with
\* text after the identifier; "fa" announced, without the leading "/"; and a
\* line that announces nothing.
Lines == {
    Line(TRUE, <<"/", "a", "/", "f", "a">>),
    Line(TRUE, <<"/", "w", "e", "b", "s", "i", "t", "e", "s", "/", "f", "a">>),
    Line(TRUE, <<"/", "b", "/", "F", "-", "a">>),
    Line(TRUE, <<"/", "c", "/", "f", "_", "b", " ", "z", "z">>),
    Line(TRUE, <<"f", "a">>),
    Line(FALSE, <<"/", "a", "/", "f", "a">>) }

SeqsUpTo(S, n) == UNION {[1..k -> S] : k \in 0..n}

\* A text longer than the TopLimit candidates shown to the backend: TopLimit
\* times "/c/f_b", then "/a/fa".
LongText ==
    [i \in 1..(TopLimit + 1) |->
        IF i <= TopLimit THEN Line(TRUE, <<"/", "c", "/", "f", "_", "b">>)
        ELSE Line(TRUE, <<"/", "a", "/", "f", "a">>)]

Texts == SeqsUpTo(Lines, MaxLines) \cup {LongText}

Responses ==
    {Response(k, <<>>) : k \in {"transport_error", "no_content", "content_empty",
                                "item_not_object", "text_not_string"}}
    \cup {Response("text", t) : t \in Texts}

\* The backend's replies: "0", "1", "2", "3", "7", "15", "16", "no", "#2", "".
Answers == { <<"0">>, <<"1">>, <<"2">>, <<"3">>, <<"7">>, <<"1", "5">>,
             <<"1", "6">>, <<"n", "o">>, <<"#", "2">>, <<>> }

LlmOutcomes ==
    {LlmOutcome("import_error", <<>>), LlmOutcome("api_error", <<>>)}
    \cup {LlmOutcome("text", a) : a \in Answers}

NotConsulted == LlmOutcome("not_consulted", <<>>)

\* The outcomes of the backend a call can meet: one of LlmOutcomes when the call
\* enters resolve_library_with_llm, none otherwise.
BackendOutcomes(q, useLlm, key, resp) ==
    IF ResolveLibrary(q, useLlm, key, resp, NotConsulted).reached
    THEN LlmOutcomes
    ELSE {NotConsulted}

(***************************************************************************)
(* A direct call of resolve_library, as src/test.py makes                  *)
(***************************************************************************)
NoCall == [done |-> FALSE]

\* client = Context7Client(api_key, openai_api_key);
\* client.resolve_library(q, use_llm=useLlm)
\* The source service's response and, when the call consults it, the backend's
\* outcome are drawn by the environment. shown: the candidates the prompt of the
\* completion call lists (matches_list), empty when no completion call is made.
DirectResolve ==
    /\ rcall = NoCall
    /\ \E q \in Queries, useLlm \in BOOLEAN, key \in BOOLEAN, resp \in Responses :
          \E llm \in BackendOutcomes(q, useLlm, key, resp) :
          \E r \in {ResolveLibrary(q, useLlm, key, resp, llm)} :
              rcall' = [done |-> TRUE, q |-> q, useLlm |-> useLlm, key |-> key,
                        resp |-> resp,
                        llm |-> llm,
                        matches |-> r.matches, ws |-> r.ws,
                        kind |-> r.kind, id |-> r.id, method |-> r.method,
                        reached |-> r.reached, llmCalls |-> r.llmCalls,
                        httpCalls |-> r.httpCalls,
                        shown |-> IF r.llmCalls > 0 THEN TopMatches(r.ws)
                                  ELSE <<>>]
    /\ UNCHANGED <<env, pc, req, similar, lib, docs, store, timed, ops, out, net, pcall, runs, lcall>>

(***************************************************************************)
(* MemMachineClient (src/memmachine_client.py)                             *)
(***************************************************************************)
DocAgentPrefix == <<"d", "o", "c", "_", "a", "g", "e", "n", "t", "_">>

DocSessionPrefix == <<"d", "o", "c", "_", "s", "e", "s", "s", "i", "o", "n", "_">>

\* Mutant of CreateSessionData: the keys do not include the user_id.
CreateSessionDataShared(user) ==
    [group_id |-> DocAgentPrefix,
     agent_id |-> <<"doc_injection_agent">>,
     user_id |-> <<user>>,
     session_id |-> DocSessionPrefix]

\* _create_session_data(user_id)
CreateSessionData(user) ==
    [group_id |-> DocAgentPrefix \o user,
     agent_id |-> <<"doc_injection_agent">>,
     user_id |-> <<user>>,
     session_id |-> DocSessionPrefix \o user]

NoSession == [group_id |-> <<>>, agent_id |-> <<>>, user_id |-> <<>>,
              session_id |-> <<>>]

\* A response of the history store to the search: kind
\*   "transport_error"  requests raises a RequestException (timeout, connection
\*                      error, HTTP error status),
\*   "malformed"        the body is not the expected structure (result or
\*                      content is no object: .get raises AttributeError),
\*   "ok"               content holds the given episodic and profile lists,
\*   "ok_object"        content.episodic_memory is a JSON object with the given
\*                      entries, not a list: len() works on it, slicing does not.
MemResponse(kind, episodic, profile) ==
    [kind |-> kind, episodic |-> episodic, profile |-> profile]

\* What a call of search_similar_queries did: the record returned (is_list: the
\* episodic_memory it holds is a list), or kind "raise".
SearchResult(kind, episodic, profile, has_context, is_list) ==
    [kind |-> kind, episodic_memory |-> episodic, profile_memory |-> profile,
     has_context |-> has_context, is_list |-> is_list]

\* Mutant of SearchSimilarQueries: has_context looks at episodic memory alone.
SearchSimilarQueriesEpisodicOnly(mresp) ==
    IF mresp.kind = "malformed"
    THEN SearchResult("raise", <<>>, <<>>, FALSE, TRUE)
    ELSE IF mresp.kind = "transport_error"
    THEN SearchResult("return", <<>>, <<>>, FALSE, TRUE)
    ELSE SearchResult("return", mresp.episodic, mresp.profile,
                      mresp.episodic # <<>>, mresp.kind = "ok")

\* Mutant of SearchSimilarQueries: the RequestException is not caught.
SearchSimilarQueriesUncaught(mresp) ==
    IF mresp.kind \in {"malformed", "transport_error"}
    THEN SearchResult("raise", <<>>, <<>>, FALSE, TRUE)
    ELSE SearchResult("return", mresp.episodic, mresp.profile,
                      mresp.episodic # <<>> \/ mresp.profile # <<>>,
                      mresp.kind = "ok")

\* search_similar_queries(query, user_id, limit): the record returned, or kind
\* "raise" when an exception other than RequestException leaves the call.
SearchSimilarQueries(mresp) ==
    IF mresp.kind = "malformed"
    THEN SearchResult("raise", <<>>, <<>>, FALSE, TRUE)
    ELSE IF mresp.kind = "transport_error"
    THEN SearchResult("return", <<>>, <<>>, FALSE, TRUE)
    ELSE SearchResult("return", mresp.episodic, mresp.profile,
                      mresp.episodic # <<>> \/ mresp.profile # <<>>,
                      mresp.kind = "ok")

\* store_retrieval_session(...): True, or False on a RequestException.
StoreRetrievalSession(sresp) == sresp = "ok"

EpisodeLimit == 3

\* A part of the prompt: a fixed line, or a line rendering an entry or the query.
Part(label, n, entry, query) ==
    [label |-> label, n |-> n, entry |-> entry, query |-> query]

\* Mutant of BuildContextPrompt: every episode is rendered, not the first three.
BuildContextPromptUnlimited(episodic, profile, query) ==
    LET prof == IF profile = <<>> THEN <<>>
                ELSE <<Part("=== USER PREFERENCES ===", 0, "", <<>>)>>
                     \o [i \in 1..Len(profile) |-> Part("str", 0, profile[i], <<>>)]
        epi == IF episodic = <<>> THEN <<>>
               ELSE <<Part("=== PAST SIMILAR QUERIES ===", 0, "", <<>>)>>
                    \o [i \in 1..Len(episodic) |->
                            Part("Past Query", i, episodic[i], <<>>)]
        parts == prof \o epi
    IN  IF parts # <<>>
        THEN parts \o <<Part("=== CURRENT QUERY ===", 0, "", <<>>),
                        Part("Current query: ", 0, "", query),
                        Part("Based on the above context", 0, "", <<>>)>>
        ELSE <<Part("Query: ", 0, "", query)>>

\* build_context_prompt(episodic_memory, profile_memory, current_query): the
\* parts joined by "\n", in order.
BuildContextPrompt(episodic, profile, query) ==
    LET prof == IF profile = <<>> THEN <<>>
                ELSE <<Part("=== USER PREFERENCES ===", 0, "", <<>>)>>
                     \o [i \in 1..Len(profile) |-> Part("str", 0, profile[i], <<>>)]
        top == SubSeq(episodic, 1, Min(EpisodeLimit, Len(episodic)))
        epi == IF episodic = <<>> THEN <<>>
               ELSE <<Part("=== PAST SIMILAR QUERIES ===", 0, "", <<>>)>>
                    \o [i \in 1..Len(top) |-> Part("Past Query", i, top[i], <<>>)]
        parts == prof \o epi
    IN  IF parts # <<>>
        THEN parts \o <<Part("=== CURRENT QUERY ===", 0, "", <<>>),
                        Part("Current query: ", 0, "", query),
                        Part("Based on the above context", 0, "", <<>>)>>
        ELSE <<Part("Query: ", 0, "", query)>>

\* What a call of build_context_prompt did: the text returned, or kind "raise";
\* the two list arguments as the call left them; the I/O it performed.
PromptCall(kind, text, episodic, profile, io) ==
    [kind |-> kind, text |-> text, episodic |-> episodic, profile |-> profile,
     io |-> io]

\* Mutant of BuildContextPromptCall: the episodes shown are taken off the
\* caller's list.
BuildContextPromptCallConsuming(episodic, is_list, profile, query) ==
    IF episodic # <<>> /\ ~is_list
    THEN PromptCall("raise", <<>>, episodic, profile, <<>>)
    ELSE PromptCall("return", BuildContextPrompt(episodic, profile, query),
                    SubSeq(episodic, Min(EpisodeLimit, Len(episodic)) + 1,
                           Len(episodic)),
                    profile, <<>>)

\* A call of build_context_prompt: episodic_memory[:3] raises TypeError when a
\* non-empty episodic_memory is no list; the slice is a copy, the arguments are
\* only read, and nothing but the returned text is produced.
BuildContextPromptCall(episodic, is_list, profile, query) ==
    IF episodic # <<>> /\ ~is_list
    THEN PromptCall("raise", <<>>, episodic, profile, <<>>)
    ELSE PromptCall("return", BuildContextPrompt(episodic, profile, query),
                    episodic, profile, <<>>)

(***************************************************************************)
(* Context7Client.get_docs                                                 *)
(***************************************************************************)
DocText == <<"d", "o", "c">>

\* get_docs(library_id, topic, tokens): for a response of kind
\*   "transport_error"  a RequestException: "" is returned,
\*   "no_text"          no content, or content without text: "" is returned,
\*   "item_not_object"  an item of content is no object (item.get raises),
\*   "text"             the joined text is returned.
GetDocs(dresp) ==
    IF dresp = "item_not_object" THEN [kind |-> "raise", text |-> <<>>]
    ELSE IF dresp = "text" THEN [kind |-> "return", text |-> DocText]
    ELSE [kind |-> "return", text |-> <<>>]

DocResponses == {"transport_error", "no_text", "item_not_object", "text"}

(***************************************************************************)
(* OpikClient (src/opik_client.py): the telemetry recorder                 *)
(***************************************************************************)
\* The telemetry client of the process:
\*   "absent"        opik_client is None (initialize_clients did not reach it),
\*   "unconfigured"  OpikClient().client is None: every record call returns None,
\*   "failing"       the sink raises on every call: caught, None is returned,
\*   "working"       the trace or span is created.
OpikModes == {"absent", "unconfigured", "failing", "working"}

\* Mutant of TraceReturn: a failure of the sink is not caught.
TraceReturnUncaught(opik) ==
    CASE opik = "unconfigured" -> "None"
      [] opik = "failing" -> "raise"
      [] OTHER -> "id"

\* What a trace_... call gives back: None when the client is not configured
\* ("if not self.is_configured(): return None") and when the sink's call raises
\* ("except Exception: return None"), else str(trace.id) or str(span.id).
TraceReturn(opik) ==
    CASE opik = "unconfigured" -> "None"
      [] opik = "failing" -> "None"
      [] OTHER -> "id"

\* An entry of the run's log: an external operation issued, or a call of the
\* telemetry recorder with what it was given (success, library_id, the error
\* text, the durations), whether the sink received the event, and what the call
\* gave back (ret).
Op(op, success, id, error, times, emitted, session, ret) ==
    [op |-> op, success |-> success, id |-> id, error |-> error, times |-> times,
     emitted |-> emitted, session |-> session, ret |-> ret]

External(op, session) == Op(op, FALSE, NoId, "", {}, FALSE, session, "")

\* The timeout, in seconds, each external call is issued with: the timeout=
\* argument of requests.post; none for the completion call, which passes no
\* timeout to OpenAI(...) or to chat.completions.create(...).
ExplicitTimeout(op) ==
    CASE op = "memory_search" -> {10}
      [] op = "resolve" -> {10}
      [] op = "fetch" -> {15}
      [] op = "store" -> {15}
      [] op = "arbitrate" -> {}

\* Mutant of Record: a recorder that is not configured still reports the event.
RecordUnchecked(opik, log, op, success, id, error, times) ==
    IF opik = "absent" THEN log
    ELSE Append(log, Op(op, success, id, error, times, TRUE, NoSession,
                        TraceReturn(opik)))

\* "if opik_client: opik_client.trace_...(...)": the call is made when the client
\* is present; the event reaches the sink when the client is configured and the
\* call does not fail. The id returned is never used by the pipeline.
Record(opik, log, op, success, id, error, times) ==
    IF opik = "absent" THEN log
    ELSE Append(log, Op(op, success, id, error, times, opik = "working",
                        NoSession, TraceReturn(opik)))

\* Whether the guarded trace call at a call site of the run raises.
TraceRaises(opik) == opik # "absent" /\ TraceReturn(opik) = "raise"

(***************************************************************************)
(* agent_mcp.py: the process-scoped clients and a run of get_library_docs  *)
(***************************************************************************)
\* context7_client = None; memmachine_client = None; opik_client = None
NoClients == [init |-> "no", context7 |-> FALSE, memmachine |-> FALSE,
              opik |-> "absent", key |-> FALSE]

Unset == [kind |-> "unset", id |-> NoId, method |-> "", llmCalls |-> 0,
          httpCalls |-> 0]

NoSimilar == SearchResult("unset", <<>>, <<>>, FALSE, TRUE)

NoDocs == [kind |-> "unset", text |-> <<>>]

NoReq == [library_name |-> <<>>, topic |-> <<>>, user_id |-> <<>>]

NoOut == [kind |-> "pending", from |-> "", id |-> NoId, docs |-> <<>>,
          context |-> <<>>, times |-> {}]

\* No collaborator has answered yet.
NoNet == [mem |-> "unset", resolve |-> "unset", llm |-> "unset",
          fetch |-> "unset", store |-> "unset"]

NoPromptCall == [done |-> FALSE]

\* The runs a server has in progress at once.
RunIds == {"a", "b"}

\* No collaborator has answered a run yet.
NoGot == [mem |-> "unset", resolve |-> "unset", llm |-> "unset",
          fetch |-> "unset", store |-> "unset"]

\* A run of get_library_docs that has not been called: its position, its
\* arguments and locals, its log, the value it returned, and the responses it
\* received from the collaborators.
NoRun == [pc |-> "idle", req |-> NoReq, similar |-> NoSimilar, lib |-> Unset,
          docs |-> NoDocs, store |-> "unset", timed |-> {}, ops |-> <<>>,
          out |-> NoOut, got |-> NoGot]

Init ==
    /\ env = NoClients
    /\ pc = "idle"
    /\ req = NoReq
    /\ similar = NoSimilar
    /\ lib = Unset
    /\ docs = NoDocs
    /\ store = "unset"
    /\ timed = {}
    /\ ops = <<>>
    /\ out = NoOut
    /\ rcall = NoCall
    /\ net = NoNet
    /\ pcall = NoPromptCall
    /\ runs = [r \in RunIds |-> NoRun]
    /\ lcall = NoCall

\* initialize_clients(): without CONTEXT7_API_KEY nothing is created; the
\* Context7 and MemMachine clients are assigned before the health check, the
\* Opik client only after it passed. key: whether OPENAI_API_KEY is set.
InitializeClients ==
    /\ pc = "idle"
    /\ env.init = "no"
    /\ \/ env' = [env EXCEPT !.init = "failed"]
       \/ \E key \in BOOLEAN :
              env' = [init |-> "failed", context7 |-> TRUE, memmachine |-> TRUE,
                      opik |-> "absent", key |-> key]
       \/ \E key \in BOOLEAN, mode \in OpikModes \ {"absent"} :
              env' = [init |-> "ok", context7 |-> TRUE, memmachine |-> TRUE,
                      opik |-> mode, key |-> key]
    /\ UNCHANGED <<pc, req, similar, lib, docs, store, timed, ops, out, rcall, net, pcall, runs, lcall>>

Topics == {<<>>, <<"t">>}

UserIds == {<<"u">>, <<"v">>}

\* str.strip() of the spaces at both ends.
Strip(s) ==
    LET keep == {i \in 1..Len(s) : s[i] # " "}
    IN  IF keep = {} THEN <<>>
        ELSE SubSeq(s, CHOOSE i \in keep : \A j \in keep : i <= j,
                       CHOOSE i \in keep : \A j \in keep : j <= i)

\* query_text = f"{library_name} {topic}".strip()
QueryText(r) == Strip(r.library_name \o <<" ">> \o r.topic)

\* Mutant of ClientsMissing: only the Context7 client is required.
ClientsMissingContext7Only(e) == ~e.context7

\* Mutant of ClientsMissing: the telemetry client is required as well.
ClientsMissingWithoutOpik(e) == ~e.context7 \/ ~e.memmachine \/ e.opik = "absent"

\* if not context7_client or not memmachine_client
ClientsMissing(e) == ~e.context7 \/ ~e.memmachine

\* get_library_docs(library_name, topic, user_id) is called: start_time is taken
\* and the client handles are checked.
CallGetLibraryDocs ==
    /\ pc = "idle"
    /\ \E name \in Queries, topic \in Topics, user \in UserIds :
          req' = [library_name |-> name, topic |-> topic, user_id |-> user]
    /\ IF ClientsMissing(env)
       THEN /\ out' = [NoOut EXCEPT !.kind = "not_available", !.from = "start"]
            /\ pc' = "returned"
       ELSE /\ out' = out
            /\ pc' = "memory_lookup"
    /\ UNCHANGED <<env, similar, lib, docs, store, timed, ops, rcall, net, pcall, runs, lcall>>

Episodes == {<<>>, <<"e1">>, <<"e1", "e2", "e3", "e4">>}

Profiles == {<<>>, <<"p1">>}

MemResponses ==
    {MemResponse("transport_error", <<>>, <<>>), MemResponse("malformed", <<>>, <<>>)}
    \cup {MemResponse("ok", e, p) : e \in Episodes, p \in Profiles}
    \cup {MemResponse("ok_object", <<"e1">>, p) : p \in Profiles}

\* Step 1: memmachine_client.search_similar_queries(query_text, user_id, limit=3)
\* and memory_time. An exception leaving the search is caught by the run's
\* "except Exception".
SearchMemory ==
    /\ pc = "memory_lookup"
    /\ \E mresp \in MemResponses :
          \E r \in {SearchSimilarQueries(mresp)} :
              /\ similar' = r
              /\ pc' = IF r.kind = "raise" THEN "except" ELSE "memory_trace"
              /\ timed' = IF r.kind = "raise" THEN timed
                          ELSE timed \cup {"memory_time"}
              /\ out' = IF r.kind = "raise"
                        THEN [out EXCEPT !.from = "memory_lookup"] ELSE out
              /\ net' = [net EXCEPT !.mem = mresp.kind]
    /\ ops' = Append(ops, External("memory_search", CreateSessionData(req.user_id)))
    /\ UNCHANGED <<env, req, lib, docs, store, rcall, pcall, runs, lcall>>

\* Mutant of SearchTrace: the search is traced only when it found context.
SearchTraceOnContext(opik, log, sim) ==
    IF sim.has_context
    THEN Record(opik, log, "trace_memory_search", sim.has_context, NoId, "",
                {"memory_time"})
    ELSE log

\* opik_client.trace_memmachine_operation("search", success=has_context, ...)
SearchTrace(opik, log, sim) ==
    Record(opik, log, "trace_memory_search", sim.has_context, NoId, "",
           {"memory_time"})

\* The search is traced and context7_start is taken.
TraceSearch ==
    /\ pc = "memory_trace"
    /\ ops' = SearchTrace(env.opik, ops, similar)
    /\ IF TraceRaises(env.opik)
       THEN /\ pc' = "except"
            /\ out' = [out EXCEPT !.from = "memory_lookup"]
       ELSE /\ pc' = "resolving"
            /\ out' = out
    /\ UNCHANGED <<env, req, similar, lib, docs, store, timed, rcall, net, pcall, runs, lcall>>

\* What a run keeps of a call of resolve_library: its result, and the completion
\* calls and the requests to the source service it made.
Resolved(r) == [kind |-> r.kind, id |-> r.id, method |-> r.method,
                llmCalls |-> r.llmCalls, httpCalls |-> r.httpCalls]

\* What resolve_library(q), with use_llm at its default True, can do for each
\* query and backend key, over every response of the source service and every
\* outcome of the backend: what the run keeps of the call, with the kinds of the
\* response and of the backend's outcome that led to it.
ResolveOutcomes ==
    [q \in Queries, key \in BOOLEAN |->
        UNION {{[r |-> Resolved(ResolveLibrary(q, TRUE, key, resp, llm)),
                 resp |-> resp.kind, llm |-> llm.kind] :
                   llm \in BackendOutcomes(q, TRUE, key, resp)} :
               resp \in Responses}]

\* Mutant of ResolveBranch: the fetch is issued whatever the resolution returned.
ResolveBranchAlwaysFetch(kind) ==
    IF kind = "raise" THEN "except" ELSE "fetching"

\* Where the run goes after resolve_library: to "except" when it raised, into
\* "if not library_id" when it returned None, to the fetch otherwise.
ResolveBranch(kind) ==
    IF kind = "raise" THEN "except"
    ELSE IF kind = "none" THEN "not_found"
    ELSE "fetching"

\* Step 2: library_id = context7_client.resolve_library(library_name): one
\* request to the source service, and the completion calls of the arbitration.
Resolve ==
    /\ pc = "resolving"
    /\ \E o \in ResolveOutcomes[req.library_name, env.key] :
          /\ lib' = o.r
          /\ net' = [net EXCEPT !.resolve = o.resp, !.llm = o.llm]
          /\ ops' = ops
                    \o [i \in 1..o.r.httpCalls |-> External("resolve", NoSession)]
                    \o [i \in 1..o.r.llmCalls |-> External("arbitrate", NoSession)]
          /\ pc' = ResolveBranch(o.r.kind)
          /\ out' = IF o.r.kind = "raise"
                    THEN [out EXCEPT !.from = "resolving"] ELSE out
    /\ UNCHANGED <<env, req, similar, docs, store, timed, rcall, pcall, runs, lcall>>

\* Mutant of NotFoundTrace: the failed resolution is not traced.
NotFoundTraceSkipped(opik, log) == log

\* opik_client.trace_context7_call(library_id=None, success=False,
\*     docs_retrieved="", error_message="Library not found: ...")
NotFoundTrace(opik, log) ==
    Record(opik, log, "trace_context7", FALSE, NoId, "Library not found", {})

\* if not library_id: the failure is traced and the "not found" text returned.
ReturnNotFound ==
    /\ pc = "not_found"
    /\ ops' = NotFoundTrace(env.opik, ops)
    /\ IF TraceRaises(env.opik)
       THEN /\ pc' = "except"
            /\ out' = [out EXCEPT !.from = "resolving"]
       ELSE /\ pc' = "returned"
            /\ out' = [NoOut EXCEPT !.kind = "not_found", !.from = "resolving"]
    /\ UNCHANGED <<env, req, similar, lib, docs, store, timed, rcall, net, pcall, runs, lcall>>

\* docs = context7_client.get_docs(library_id, topic, tokens=3000), then
\* context7_time and context7_success.
Fetch ==
    /\ pc = "fetching"
    /\ \E dresp \in DocResponses :
          \E r \in {GetDocs(dresp)} :
              /\ docs' = r
              /\ pc' = IF r.kind = "raise" THEN "except" ELSE "fetch_trace"
              /\ timed' = IF r.kind = "raise" THEN timed
                          ELSE timed \cup {"context7_time"}
              /\ out' = IF r.kind = "raise"
                        THEN [out EXCEPT !.from = "fetching"] ELSE out
              /\ net' = [net EXCEPT !.fetch = dresp]
    /\ ops' = Append(ops, Op("fetch", FALSE, lib.id, "", {}, FALSE, NoSession, ""))
    /\ UNCHANGED <<env, req, similar, lib, store, rcall, pcall, runs, lcall>>

\* Mutant of FetchTrace: the fetch is traced only when it returned text.
FetchTraceOnSuccess(opik, log, id, text) ==
    IF text # <<>>
    THEN Record(opik, log, "trace_context7", TRUE, id, "", {"context7_time"})
    ELSE log

\* opik_client.trace_context7_call(library_id, success=bool(docs), docs, time)
FetchTrace(opik, log, id, text) ==
    Record(opik, log, "trace_context7", text # <<>>, id, "", {"context7_time"})

\* Mutant of NoDocsResult: the result does not name the identifier.
NoDocsResultAnonymous(id) == [NoOut EXCEPT !.kind = "no_docs", !.from = "fetching"]

\* error_msg = "No documentation found for '{library_name}' (ID: {library_id})"
NoDocsResult(id) ==
    [NoOut EXCEPT !.kind = "no_docs", !.from = "fetching", !.id = id]

\* The fetch is traced; if not docs: the "no documentation" text is returned.
TraceFetch ==
    /\ pc = "fetch_trace"
    /\ ops' = FetchTrace(env.opik, ops, lib.id, docs.text)
    /\ IF TraceRaises(env.opik)
       THEN /\ out' = [out EXCEPT !.from = "fetching"]
            /\ pc' = "except"
       ELSE IF docs.text = <<>>
       THEN /\ out' = NoDocsResult(lib.id)
            /\ pc' = "returned"
       ELSE /\ out' = out
            /\ pc' = "storing"
    /\ UNCHANGED <<env, req, similar, lib, docs, store, timed, rcall, net, pcall, runs, lcall>>

StoreResponses == {"ok", "transport_error"}

\* Step 3: store_success = memmachine_client.store_retrieval_session(...), then
\* store_time.
Store ==
    /\ pc = "storing"
    /\ \E sresp \in StoreResponses :
          /\ store' = IF StoreRetrievalSession(sresp) THEN "true" ELSE "false"
          /\ net' = [net EXCEPT !.store = sresp]
    /\ ops' = Append(ops, Op("store", docs.text # <<>>, lib.id, "",
                             {"context7_time", "memory_time"}, FALSE,
                             CreateSessionData(req.user_id), ""))
    /\ timed' = timed \cup {"store_time"}
    /\ pc' = "store_trace"
    /\ UNCHANGED <<env, req, similar, lib, docs, out, rcall, pcall, runs, lcall>>

\* opik_client.trace_memmachine_operation("store", success=store_success, ...)
TraceStore ==
    /\ pc = "store_trace"
    /\ ops' = Record(env.opik, ops, "trace_memory_store", store = "true", NoId, "",
                     {"store_time"})
    /\ IF TraceRaises(env.opik)
       THEN /\ pc' = "except"
            /\ out' = [out EXCEPT !.from = "storing"]
       ELSE /\ pc' = "session_trace"
            /\ out' = out
    /\ UNCHANGED <<env, req, similar, lib, docs, store, timed, rcall, net, pcall, runs, lcall>>

\* Mutant of SessionTrace: the metadata carries the total duration only.
SessionTraceTotalOnly(opik, log, id, text) ==
    Record(opik, log, "trace_session", text # <<>>, id, "", {"total_time"})

\* opik_client.trace_doc_retrieval_session(library_id, context7_success, docs,
\*     metadata with total_time_ms, context7_time_ms, memory_time_ms,
\*     store_time_ms)
SessionTrace(opik, log, id, text) ==
    Record(opik, log, "trace_session", text # <<>>, id, "",
           {"total_time", "context7_time", "memory_time", "store_time"})

\* Step 4: the summary of the session is traced.
TraceSession ==
    /\ pc = "session_trace"
    /\ ops' = SessionTrace(env.opik, ops, lib.id, docs.text)
    /\ IF TraceRaises(env.opik)
       THEN /\ pc' = "except"
            /\ out' = [out EXCEPT !.from = "summary"]
       ELSE /\ pc' = "respond"
            /\ out' = out
    /\ UNCHANGED <<env, req, similar, lib, docs, store, timed, rcall, net, pcall, runs, lcall>>

\* Step 5: the response parts: the memory context when there is one, then the
\* documentation with the Context7, Memory and Total durations. An exception
\* leaving build_context_prompt is caught by the run's "except Exception".
BuildResponse ==
    /\ pc = "respond"
    /\ \E c \in {IF similar.has_context
                  THEN BuildContextPromptCall(similar.episodic_memory,
                                              similar.is_list,
                                              similar.profile_memory,
                                              QueryText(req))
                  ELSE PromptCall("return", <<>>, <<>>, <<>>, <<>>)} :
          IF c.kind = "raise"
          THEN /\ out' = [out EXCEPT !.from = "respond"]
               /\ pc' = "except"
          ELSE /\ out' = [kind |-> "docs", from |-> "respond", id |-> lib.id,
                          docs |-> docs.text, context |-> c.text,
                          times |-> {"context7_time", "memory_time", "total_time"}]
               /\ pc' = "returned"
    /\ UNCHANGED <<env, req, similar, lib, docs, store, timed, ops, rcall, net, pcall, runs, lcall>>

ErrorId == <<"e", "r", "r", "o", "r">>

\* except Exception: the error is traced with library_id="error" and total_time_ms,
\* and the "Error retrieving documentation" text returned. An exception leaving
\* the trace call here would leave get_library_docs (kind "raised").
HandleException ==
    /\ pc = "except"
    /\ ops' = Record(env.opik, ops, "trace_session", FALSE, ErrorId, "exception",
                     {"total_time"})
    /\ out' = [out EXCEPT !.kind = IF TraceRaises(env.opik) THEN "raised"
                                   ELSE "error"]
    /\ pc' = "returned"
    /\ UNCHANGED <<env, req, similar, lib, docs, store, timed, rcall, net, pcall, runs, lcall>>

Next ==
    \/ InitializeClients
    \/ CallGetLibraryDocs
    \/ SearchMemory
    \/ TraceSearch
    \/ Resolve
    \/ ReturnNotFound
    \/ Fetch
    \/ TraceFetch
    \/ Store
    \/ TraceStore
    \/ TraceSession
    \/ BuildResponse
    \/ HandleException

\* The server: the clients and runs of get_library_docs.
Spec == Init /\ [][Next]_vars

\* The lists a direct call of build_context_prompt is given.
PromptEpisodes == SeqsUpTo({"e1", "e2"}, MaxEpisodes)

PromptProfiles == SeqsUpTo({"p1", "p2"}, MaxProfiles)

\* client.build_context_prompt(episodic, profile, query), called twice in a row
\* on the same list objects, as the end of src/memmachine_client.py calls it
\* once: the second call sees the lists as the first left them.
DirectBuildContextPrompt ==
    /\ pcall = NoPromptCall
    /\ \E e \in PromptEpisodes, p \in PromptProfiles, q \in Queries :
          \E c1 \in {BuildContextPromptCall(e, TRUE, p, q)} :
          \E c2 \in {BuildContextPromptCall(c1.episodic, TRUE, c1.profile, q)} :
              pcall' = [done |-> TRUE, episodic |-> e, profile |-> p, query |-> q,
                        first |-> c1, second |-> c2]
    /\ UNCHANGED <<env, pc, req, similar, lib, docs, store, timed, ops, out, rcall,
                   net, runs, lcall>>

\* The candidate lists a direct call of resolve_library_with_llm is given.
DirectMatches ==
    { <<>>,
      << <<"/", "a", "/", "f", "a">> >>,
      << <<"/", "c", "/", "f", "_", "b">>, <<"/", "a", "/", "f", "a">> >>,
      << <<"/", "c", "/", "f", "_", "b">>, <<"/", "b", "/", "F", "-", "a">> >> }

\* client = Context7Client(api_key, openai_api_key);
\* client.resolve_library_with_llm(q, matches)
\* The backend's outcome is drawn by the environment when a key is configured.
DirectResolveWithLlm ==
    /\ lcall = NoCall
    /\ \E q \in Queries, key \in BOOLEAN, matches \in DirectMatches :
          \E llm \in (IF key THEN LlmOutcomes ELSE {NotConsulted}) :
          \E r \in {ResolveLibraryWithLlm(q, matches, key, llm)} :
              lcall' = [done |-> TRUE, q |-> q, key |-> key, matches |-> matches,
                        llm |-> llm, kind |-> r.d.kind, id |-> r.d.id,
                        method |-> r.d.method, llmCalls |-> r.llmCalls]
    /\ UNCHANGED <<env, pc, req, similar, lib, docs, store, timed, ops, out, rcall,
                   net, pcall, runs>>

NextArbiter == DirectResolveWithLlm

\* resolve_library_with_llm called directly.
SpecArbiter == Init /\ [][NextArbiter]_vars

NextResolver == DirectResolve

\* The resolver called directly.
SpecResolver == Init /\ [][NextResolver]_vars

NextPrompt == DirectBuildContextPrompt

\* build_context_prompt called directly.
SpecPrompt == Init /\ [][NextPrompt]_vars

(***************************************************************************)
(* The vocabulary of the properties, stated apart from the code's          *)
(* operators                                                               *)
(***************************************************************************)
RECURSIVE CaseFolded(_)
\* s lower-cased, with every "-" and "_" removed.
CaseFolded(s) ==
    IF s = <<>> THEN <<>>
    ELSE LET c == Head(s)
             low == IF c = "A" THEN "a" ELSE IF c = "F" THEN "f" ELSE c
         IN  (IF c = "-" \/ c = "_" THEN <<>> ELSE <<low>>) \o CaseFolded(Tail(s))

RECURSIVE Trailing(_)
\* The trailing path segment of an identifier: what follows its last "/".
Trailing(s) ==
    IF s = <<>> \/ s[Len(s)] = "/" THEN <<>>
    ELSE Append(Trailing(SubSeq(s, 1, Len(s) - 1)), s[Len(s)])

\* The identifier's trailing segment equals the query, both normalized.
NormEqual(q, id) == CaseFolded(Trailing(id)) = CaseFolded(q)

\* The identifier starts with "/websites/".
LowTrust(id) ==
    /\ Len(id) >= 10
    /\ SubSeq(id, 1, 10) = <<"/", "w", "e", "b", "s", "i", "t", "e", "s", "/">>

InSeq(x, seq) == \E i \in 1..Len(seq) : seq[i] = x

HasDigit(text) ==
    \E i \in 1..Len(text) :
        text[i] \in {"0", "1", "2", "3", "4", "5", "6", "7", "8", "9"}

\* A direct call of resolve_library has ended, with a candidate list extracted
\* from the response text.
Resolved_Text == rcall.done /\ rcall.resp.kind = "text"

(***************************************************************************)
(* Properties of resolve_library (checked under SpecResolver)              *)
(***************************************************************************)
\* C1: when the working set has two or more candidates and one of them has a
\* trailing segment normalized-equal to the query, resolve_library returns a
\* candidate of the working set with a normalized-equal trailing segment,
\* whatever the arbitration backend answers or however it fails.
C1_ExactMatchWins ==
    ( /\ Resolved_Text
      /\ Len(rcall.ws) >= 2
      /\ \E i \in 1..Len(rcall.ws) : NormEqual(rcall.q, rcall.ws[i]) )
    => /\ rcall.kind = "id"
       /\ InSeq(rcall.id, rcall.ws)
       /\ NormEqual(rcall.q, rcall.id)

\* C1 witness: the backend picked, by a valid index, a candidate that does not
\* match, and the call returned another candidate, which matches.
C1_Witness ==
    /\ Resolved_Text
    /\ rcall.reached
    /\ rcall.llm.kind = "text"
    /\ ParseNumber(rcall.llm.text) \in 1..Len(rcall.ws)
    /\ ~NormEqual(rcall.q, rcall.ws[ParseNumber(rcall.llm.text)])
    /\ rcall.kind = "id"
    /\ NormEqual(rcall.q, rcall.id)

\* The backend was asked for but is unavailable, or its answer has no number.
BackendFailed ==
    /\ rcall.useLlm
    /\ \/ ~rcall.key
       \/ /\ rcall.reached
          /\ \/ rcall.llm.kind \in {"import_error", "api_error"}
             \/ rcall.llm.kind = "text" /\ ~HasDigit(rcall.llm.text)

\* C2: when the backend is unavailable or its answer holds no number, the call
\* with arbitration enabled returns what the call with use_llm=False returns on
\* the same query and response, and nothing is raised.
C2_FailureEqualsDisabled ==
    (Resolved_Text /\ BackendFailed)
    => /\ rcall.kind # "raise"
       /\ \E r \in {ResolveLibrary(rcall.q, FALSE, rcall.key, rcall.resp,
                                   NotConsulted)} :
              r.kind = rcall.kind /\ r.id = rcall.id

\* C2 witness: the completion call raised with several candidates at hand, none
\* of them an exact match, and the first candidate was returned.
C2_Witness ==
    /\ Resolved_Text
    /\ rcall.reached
    /\ rcall.llm.kind = "api_error"
    /\ rcall.llmCalls = 1
    /\ rcall.kind = "id"
    /\ rcall.method = "first_fallback"
    /\ rcall.ws[Len(rcall.ws)] # rcall.ws[1]

\* C3: a working set of exactly one member is returned by the single-match rule
\* without a backend call, whatever use_llm and the backend key are.
C3_SingleMember ==
    (Resolved_Text /\ Len(rcall.ws) = 1)
    => /\ rcall.kind = "id"
       /\ rcall.id = rcall.ws[1]
       /\ rcall.method = "single"
       /\ ~rcall.reached
       /\ rcall.llmCalls = 0
       /\ \A useLlm \in BOOLEAN, key \in BOOLEAN :
              \E r \in {ResolveLibrary(rcall.q, useLlm, key, rcall.resp,
                                       LlmOutcome("text", <<"2">>))} :
                  r.kind = "id" /\ r.id = rcall.id /\ r.llmCalls = 0

\* C3 witness: arbitration enabled with a key, several candidates in the
\* response, one of them outside "/websites/": it is returned as the single match.
C3_Witness ==
    /\ Resolved_Text
    /\ rcall.useLlm
    /\ rcall.key
    /\ Len(rcall.matches) >= 2
    /\ Len(rcall.ws) = 1
    /\ rcall.method = "single"

\* C4: when the response yields no candidate identifier, the call returns None,
\* without a backend call and without a fallback rule.
C4_NoCandidates ==
    ( /\ rcall.done
      /\ rcall.resp.kind \notin RaisingKinds
      /\ rcall.matches = <<>> )
    => /\ rcall.kind = "none"
       /\ rcall.id = NoId
       /\ rcall.method = "none"
       /\ ~rcall.reached
       /\ rcall.llmCalls = 0

\* C4 witness: a response text with lines, none of them a well-formed
\* announcement, with arbitration enabled and a key: None.
C4_Witness ==
    /\ Resolved_Text
    /\ Len(rcall.resp.text) >= 2
    /\ rcall.matches = <<>>
    /\ rcall.useLlm
    /\ rcall.key
    /\ rcall.kind = "none"

\* C5: every call of resolve_library ends with a result, an identifier or None,
\* and never raises.
C5_AlwaysAResult == rcall.done => rcall.kind \in {"id", "none"}

\* The positions of the candidates outside "/websites/".
Preferred(matches) == {i \in 1..Len(matches) : ~LowTrust(matches[i])}

\* C6: the working set is the candidates not starting with "/websites/", in
\* source order, or every candidate when there is none; one candidate outside
\* "/websites/" among any number inside is returned by the single-match rule.
C6_WorkingSet ==
    (Resolved_Text /\ rcall.matches # <<>>)
    => LET pref == Preferred(rcall.matches)
       IN  /\ pref = {} => rcall.ws = rcall.matches
           /\ pref # {} =>
                /\ Len(rcall.ws) = Cardinality(pref)
                /\ \A i \in pref :
                       rcall.ws[Cardinality({j \in pref : j <= i})] = rcall.matches[i]
           /\ Cardinality(pref) = 1 =>
                /\ rcall.kind = "id"
                /\ rcall.method = "single"
                /\ \A i \in pref : rcall.id = rcall.matches[i]

\* C6 witness: a "/websites/" candidate first, one candidate outside "/websites/"
\* after it: the latter is returned.
C6_Witness ==
    /\ Resolved_Text
    /\ Len(rcall.matches) >= 2
    /\ LowTrust(rcall.matches[1])
    /\ Cardinality(Preferred(rcall.matches)) = 1
    /\ rcall.kind = "id"
    /\ ~LowTrust(rcall.id)

\* C7: with arbitration disabled and two or more candidates in the working set,
\* the call returns a candidate normalized-equal to the query when there is one
\* (the exact rule), and the first candidate of the working set otherwise.
C7_DisabledFallback ==
    (Resolved_Text /\ ~rcall.useLlm /\ Len(rcall.ws) >= 2)
    => /\ rcall.kind = "id"
       /\ ~rcall.reached
       /\ IF \E i \in 1..Len(rcall.ws) : NormEqual(rcall.q, rcall.ws[i])
          THEN /\ InSeq(rcall.id, rcall.ws)
               /\ NormEqual(rcall.q, rcall.id)
               /\ rcall.method = "exact_fallback"
          ELSE /\ rcall.id = rcall.ws[1]
               /\ rcall.method = "first_fallback"

\* C7 witness: arbitration disabled, the exact match is not the first candidate
\* of the working set, and it is returned.
C7_Witness ==
    /\ Resolved_Text
    /\ ~rcall.useLlm
    /\ Len(rcall.ws) >= 2
    /\ ~NormEqual(rcall.q, rcall.ws[1])
    /\ rcall.method = "exact_fallback"
    /\ NormEqual(rcall.q, rcall.id)

(***************************************************************************)
(* Properties of get_library_docs (checked under Spec)                     *)
(***************************************************************************)
\* The run has returned to its caller.
Returned == pc = "returned"

\* The results that report a failure of a started run.
FailureKinds == {"not_found", "no_docs", "error"}

\* The calls of the telemetry recorder in the run's log that report a failure
\* of the Context7 stage for the given identifier (NoId: no identifier).
FailureTraces(id) ==
    {i \in 1..Len(ops) : /\ ops[i].op = "trace_context7"
                         /\ ~ops[i].success
                         /\ ops[i].id = id}

Issued(op) == \E i \in 1..Len(ops) : ops[i].op = op

\* C8: a started run returns a failure result only from the resolving or the
\* fetching stage.
C8_FailureOnlyFromResolveOrFetch ==
    (Returned /\ out.kind \in FailureKinds) => out.from \in {"resolving", "fetching"}

\* The run returned after resolve_library gave an identifier and get_docs
\* returned empty text.
EmptyFetch ==
    /\ Returned
    /\ lib.kind = "id"
    /\ docs.kind = "return"
    /\ docs.text = <<>>

\* C9 as stated: after an empty fetch the caller gets the "no documentation
\* found" result naming the identifier, and a telemetry event with success=false
\* and that identifier has been emitted.
C9_EmptyFetchEventEmitted ==
    EmptyFetch
    => /\ out.kind = "no_docs"
       /\ out.id = lib.id
       /\ lib.id # NoId
       /\ \E i \in FailureTraces(lib.id) : ops[i].emitted

\* C9 as amended: after an empty fetch the caller gets the "no documentation
\* found" result naming the identifier; when a telemetry client is present the
\* recorder has been called with success=false and that identifier after the
\* fetch, and when the sink is configured and working the event was emitted.
C9_EmptyFetchFails ==
    EmptyFetch
    => /\ out.kind = "no_docs"
       /\ out.id = lib.id
       /\ lib.id # NoId
       /\ env.opik # "absent" =>
              \E i \in FailureTraces(lib.id) :
                  \E j \in 1..(i - 1) : ops[j].op = "fetch"
       /\ env.opik = "working" => \E i \in FailureTraces(lib.id) : ops[i].emitted
       /\ ~Issued("store")

\* C9 witness: an empty fetch with a working sink: the run has returned the "no
\* documentation found" result and the failure event was emitted.
C9_Witness ==
    /\ EmptyFetch
    /\ env.opik = "working"
    /\ out.kind = "no_docs"
    /\ \E i \in FailureTraces(lib.id) : ops[i].emitted

\* The run returned after resolve_library gave None.
ResolvedNone == Returned /\ lib.kind = "none"

\* C10 as stated: when resolve_library yields None the run returns "not found"
\* without a fetch or a store, and a telemetry event with the failure reason and
\* no identifier has been emitted.
C10_NotFoundEventEmitted ==
    ResolvedNone
    => /\ out.kind = "not_found"
       /\ ~Issued("fetch")
       /\ ~Issued("store")
       /\ \E i \in FailureTraces(NoId) :
              ops[i].emitted /\ ops[i].error = "Library not found"

\* C10 as amended: when resolve_library yields None the run returns "not found"
\* without a fetch or a store; when a telemetry client is present the recorder
\* has been called with the failure reason and no identifier, and when the sink
\* is configured and working the event was emitted.
C10_NotFoundFails ==
    ResolvedNone
    => /\ out.kind = "not_found"
       /\ out.from = "resolving"
       /\ ~Issued("fetch")
       /\ ~Issued("store")
       /\ env.opik # "absent" =>
              \E i \in FailureTraces(NoId) : ops[i].error = "Library not found"
       /\ env.opik = "working" =>
              \E i \in FailureTraces(NoId) :
                  ops[i].emitted /\ ops[i].error = "Library not found"

\* C10 witness: resolve_library gave None with a working sink: "not found" was
\* returned and the failure event emitted.
C10_Witness ==
    /\ ResolvedNone
    /\ env.opik = "working"
    /\ out.kind = "not_found"
    /\ \E i \in FailureTraces(NoId) : ops[i].emitted

(***************************************************************************)
(* Failures of the collaborators in a run (checked under Spec)             *)
(***************************************************************************)
\* The history store's search failed on transport (timeout, connection error,
\* HTTP error status).
SearchFailed == net.mem = "transport_error"

\* The history store's search succeeded and found nothing.
FoundNothing ==
    /\ net.mem = "ok"
    /\ similar.episodic_memory = <<>>
    /\ similar.profile_memory = <<>>

\* The result a run without memory context returns, as resolution and fetch
\* decide it: an error when one of them raised, "not found" without an
\* identifier, "no documentation" for empty text, else the documentation with
\* no context part.
NoContextResult ==
    IF lib.kind = "raise"
      THEN [NoOut EXCEPT !.kind = "error", !.from = "resolving"]
    ELSE IF lib.kind = "none"
      THEN [NoOut EXCEPT !.kind = "not_found", !.from = "resolving"]
    ELSE IF docs.kind = "raise"
      THEN [NoOut EXCEPT !.kind = "error", !.from = "fetching"]
    ELSE IF docs.text = <<>>
      THEN [NoOut EXCEPT !.kind = "no_docs", !.from = "fetching", !.id = lib.id]
    ELSE [kind |-> "docs", from |-> "respond", id |-> lib.id,
          docs |-> docs.text, context |-> <<>>,
          times |-> {"context7_time", "memory_time", "total_time"}]

\* C11: when the history-store search fails on transport, search_similar_queries
\* returns has_context=false with empty episodic and profile lists; the run goes
\* on to resolution and, with an identifier, to the fetch, and returns what a run
\* whose search succeeded and found nothing returns; no failure of the lookup
\* stage reaches the caller.
C11_SearchFailureAbsorbed ==
    /\ (SearchFailed /\ pc # "memory_lookup")
       => /\ similar.kind = "return"
          /\ similar.episodic_memory = <<>>
          /\ similar.profile_memory = <<>>
          /\ ~similar.has_context
          /\ out.from # "memory_lookup"
    /\ (SearchFailed /\ Returned)
       => /\ Issued("resolve")
          /\ lib.kind = "id" => Issued("fetch")
          /\ out = NoContextResult
    /\ (FoundNothing /\ Returned) => out = NoContextResult

\* C11 witness: the search failed on transport and the run returned the
\* documentation, after resolution and fetch.
C11_Witness ==
    /\ SearchFailed
    /\ Returned
    /\ out.kind = "docs"
    /\ Issued("resolve")
    /\ Issued("fetch")

\* The run returned after get_docs gave non-empty text.
FetchedDocs ==
    /\ Returned
    /\ docs.kind = "return"
    /\ docs.text # <<>>

\* C12: a run that fetched non-empty document text returns the documentation,
\* after the store was issued, whether store_retrieval_session returned True or
\* False.
C12_FetchedDocsReturned ==
    FetchedDocs
    => /\ out.kind = "docs"
       /\ out.docs = docs.text
       /\ out.id = lib.id
       /\ Issued("store")
       /\ store \in {"true", "false"}

\* The part of C12 that is about the store: a store that fails on transport gives
\* store_success False, the run goes on to the traces and the response, and what
\* it returns does not depend on store_success.
C12_StoreFailureNotFatal ==
    /\ (net.store = "transport_error")
       => (store = "false" /\ (similar.is_list => pc # "except"))
    /\ (FetchedDocs /\ similar.is_list)
       => out = [kind |-> "docs", from |-> "respond", id |-> lib.id,
                 docs |-> docs.text,
                 context |-> IF similar.has_context
                             THEN BuildContextPrompt(similar.episodic_memory,
                                                     similar.profile_memory,
                                                     QueryText(req))
                             ELSE <<>>,
                 times |-> {"context7_time", "memory_time", "total_time"}]

\* The names of the memory and source calls the run has issued, in order.
ExternalCalls ==
    LET NotTrace(e) == e.op \in {"memory_search", "resolve", "arbitrate", "fetch",
                                 "store"}
        sel == SelectSeq(ops, NotTrace)
    IN  [i \in 1..Len(sel) |-> sel[i].op]

\* The memory and source calls of a run that has returned, as the answers of
\* the history store, the source service and the backend decide them.
AnswerCalls ==
    IF similar.kind = "raise" THEN <<"memory_search">>
    ELSE <<"memory_search", "resolve">>
         \o [i \in 1..lib.llmCalls |-> "arbitrate"]
         \o (IF lib.kind # "id" THEN <<>>
             ELSE IF docs.kind = "raise" \/ docs.text = <<>> THEN <<"fetch">>
             ELSE <<"fetch", "store">>)

\* The memory context is there and cannot be rendered (a non-empty
\* episodic_memory that is no list).
ContextUnrenderable ==
    similar.has_context /\ ~similar.is_list /\ similar.episodic_memory # <<>>

\* The value a run that has returned gives its caller, as the answers of the
\* history store, the source service and the backend decide it.
AnswerResult ==
    IF similar.kind = "raise"
      THEN [NoOut EXCEPT !.kind = "error", !.from = "memory_lookup"]
    ELSE IF similar.has_context /\ lib.kind = "id" /\ docs.kind = "return"
            /\ docs.text # <<>>
      THEN IF ContextUnrenderable
           THEN [NoOut EXCEPT !.kind = "error", !.from = "respond"]
           ELSE [NoContextResult EXCEPT
                    !.context = BuildContextPrompt(similar.episodic_memory,
                                                   similar.profile_memory,
                                                   QueryText(req))]
    ELSE NoContextResult

\* C13: whatever the telemetry client is (absent, not configured, failing on
\* every call, working), a started run that has returned has made the memory
\* and source calls, and returned the value, that the answers of the history
\* store, the source service and the backend decide; so two runs with the same
\* query and the same answers that differ in telemetry alone end alike.
C13_TelemetryDoesNotInterfere ==
    (Returned /\ ~ClientsMissing(env))
    => /\ env.opik \in OpikModes
       /\ out = AnswerResult
       /\ ExternalCalls = AnswerCalls

\* C13 witness: with a sink that fails on every call, the run called the recorder
\* four times, no event was emitted, and the documentation was returned.
C13_Witness ==
    /\ Returned
    /\ env.opik = "failing"
    /\ out.kind = "docs"
    /\ Cardinality({i \in 1..Len(ops) : ops[i].ret = "None" /\ ~ops[i].emitted}) = 4

\* The durations a run that started the pipeline has measured when it returns:
\* the stage durations taken so far and the total since start_time.
Measured == timed \cup {"total_time"}

\* The durations given to the recorder calls whose event the sink received.
EmittedTimes == UNION {ops[i].times : i \in {j \in 1..Len(ops) : ops[j].emitted}}

\* C14: a run that started the pipeline and has returned, with documentation or
\* with a failure, carries the total duration and every stage duration measured
\* so far in the value returned to the caller and, with a working sink, in the
\* telemetry emitted for the run.
C14_DurationsEverywhere ==
    (Returned /\ ~ClientsMissing(env))
    => /\ Measured \subseteq out.times
       /\ env.opik = "working" => Measured \subseteq EmittedTimes

\* Every answer the run has met so far is a success or a transport failure
\* (timeout, connection error, HTTP error status): no body of unexpected shape.
NoMalformedAnswer ==
    /\ net.mem \in {"unset", "transport_error", "ok"}
    /\ net.resolve \in {"unset", "transport_error", "no_content", "content_empty",
                        "text"}
    /\ net.fetch \in {"unset", "transport_error", "no_text", "text"}

\* The values a call of get_library_docs gives its caller.
ResponseKinds == {"not_available", "not_found", "no_docs", "error", "docs"}

\* C15: get_library_docs ends with a response value and never raises, whatever
\* the collaborators do; a transport failure of a collaborator is taken as that
\* collaborator's empty or negative result (memory search: the empty record;
\* resolve: None; arbitration: the deterministic fallback; fetch: empty text;
\* store: False; telemetry: None), and a run that meets only successes and
\* transport failures never enters its exception handler.
C15_FailuresAbsorbed ==
    /\ Returned => out.kind \in ResponseKinds
    /\ pc \notin {"idle", "returned"} => ENABLED Next
    /\ net.mem = "transport_error"
       => similar = [kind |-> "return", episodic_memory |-> <<>>,
                     profile_memory |-> <<>>, has_context |-> FALSE,
                     is_list |-> TRUE]
    /\ net.resolve = "transport_error"
       => (lib.kind = "none" /\ lib.id = NoId /\ lib.llmCalls = 0)
    /\ net.llm \in {"import_error", "api_error"}
       => (lib.kind = "id" /\ lib.method \in {"exact_fallback", "first_fallback"})
    /\ net.fetch = "transport_error" => (docs.kind = "return" /\ docs.text = <<>>)
    /\ net.store = "transport_error" => store = "false"
    /\ env.opik = "failing"
       => \A i \in 1..Len(ops) : ops[i].ret \in {"", "None"} /\ ~ops[i].emitted
    /\ NoMalformedAnswer => (pc # "except" /\ out.kind # "error")

\* C15 witness: the memory search, the completion call and the store failed, the
\* sink fails on every call, and the run returned the documentation.
C15_Witness ==
    /\ Returned
    /\ net.mem = "transport_error"
    /\ net.llm = "api_error"
    /\ net.store = "transport_error"
    /\ env.opik = "failing"
    /\ out.kind = "docs"

\* C15 witness of a failed resolve: the request to the source service failed on
\* transport and the run returned "not found", without a fetch.
C15_WitnessResolve ==
    /\ Returned
    /\ net.resolve = "transport_error"
    /\ out.kind = "not_found"
    /\ ~Issued("fetch")

\* get_library_docs has been called.
Called == pc # "idle"

\* C16: a call of get_library_docs without the Context7 client or without the
\* MemMachine client returns at once the "service not available" value: no
\* memory search, resolution, fetch or store is issued, no recorder call is
\* made and no duration is measured. With both clients present the pipeline
\* starts with the memory search, also when the telemetry client is absent.
C16_NotConfigured ==
    /\ (Called /\ (~env.context7 \/ ~env.memmachine))
       => /\ Returned
          /\ out = [NoOut EXCEPT !.kind = "not_available", !.from = "start"]
          /\ ops = <<>>
          /\ timed = {}
          /\ net = NoNet
          /\ similar.kind = "unset" /\ lib.kind = "unset" /\ docs.kind = "unset"
    /\ (Called /\ env.context7 /\ env.memmachine)
       => /\ out.kind # "not_available"
          /\ pc # "memory_lookup" => (Len(ops) >= 1 /\ ops[1].op = "memory_search")

\* C16 witness: the call was made before any client was created and returned
\* "service not available" with nothing issued.
C16_Witness ==
    /\ Returned
    /\ ~env.context7
    /\ ~env.memmachine
    /\ out.kind = "not_available"
    /\ ops = <<>>

\* C16 witness of the second part: both clients present, the telemetry client
\* absent, and the run returned the documentation.
C16_WitnessNoTelemetry ==
    /\ Returned
    /\ env.context7 /\ env.memmachine
    /\ env.opik = "absent"
    /\ out.kind = "docs"

C17_WitnessEmpty ==
    /\ pcall.done
    /\ pcall.episodic = <<>>
    /\ pcall.profile = <<>>
    /\ Len(pcall.first.text) = 1
    /\ pcall.first.text[1].label = "Query: "
    /\ pcall.first.text[1].query = pcall.query

(***************************************************************************)
(* Properties of the memory and telemetry clients (checked under Spec)     *)
(***************************************************************************)
\* C18: for every answer of the history store (a transport failure, a body that
\* is not the expected structure, a well-formed body) search_similar_queries
\* returns a record with episodic_memory, profile_memory and has_context and
\* never raises; on a failure the record is the empty one.
C18_SearchNeverRaises ==
    net.mem # "unset"
    => /\ similar.kind = "return"
       /\ net.mem \in {"transport_error", "malformed"}
          => /\ similar.episodic_memory = <<>>
             /\ similar.profile_memory = <<>>
             /\ ~similar.has_context

\* The recorder calls of a run: trace_memmachine_operation (search, store),
\* trace_context7_call and trace_doc_retrieval_session.
TraceOps == {"trace_memory_search", "trace_memory_store", "trace_context7",
             "trace_session"}

\* The positions of the recorder calls in the run's log.
TraceCalls == {i \in 1..Len(ops) : ops[i].op \in TraceOps}

\* C19: no call of a telemetry recording operation raises: it gives back None
\* when the sink is not configured or its call fails, and then nothing was
\* emitted; with a working sink it gives back the id of the trace or span; and
\* no exception of the recorder leaves get_library_docs.
C19_RecorderNeverRaises ==
    /\ \A i \in TraceCalls :
          /\ ops[i].ret \in {"None", "id"}
          /\ env.opik \in {"unconfigured", "failing"}
             => (ops[i].ret = "None" /\ ~ops[i].emitted)
          /\ env.opik = "working" => (ops[i].ret = "id" /\ ops[i].emitted)
    /\ env.opik = "absent" => TraceCalls = {}
    /\ out.kind # "raised"

\* C19 witness: with a sink failing on every call, each of the three recording
\* operations was called and gave back None, and the run returned.
C19_Witness ==
    /\ Returned
    /\ env.opik = "failing"
    /\ \A op \in TraceOps : \E i \in TraceCalls : ops[i].op = op /\ ops[i].ret = "None"

\* C19 witness of the handler's call: the run's exception handler called
\* trace_doc_retrieval_session on a sink that is not configured and got None.
C19_WitnessHandler ==
    /\ Returned
    /\ env.opik = "unconfigured"
    /\ out.kind = "error"
    /\ \E i \in TraceCalls : ops[i].op = "trace_session" /\ ops[i].ret = "None"

\* The external operations of a run.
ExternalOps == {"memory_search", "resolve", "arbitrate", "fetch", "store"}

\* How often the run has issued the operation.
TimesIssued(op) == Cardinality({i \in 1..Len(ops) : ops[i].op = op})

C20_WitnessFailed ==
    /\ Returned
    /\ net.mem = "transport_error"
    /\ net.fetch = "transport_error"
    /\ out.kind = "no_docs"
    /\ TimesIssued("memory_search") = 1
    /\ TimesIssued("fetch") = 1

(***************************************************************************)
(* The deterministic fallback and the arbitration answers (SpecResolver)   *)
(***************************************************************************)
\* The positions of the working set whose candidate is normalized-equal to the
\* query.
EqualPositions == {i \in 1..Len(rcall.ws) : NormEqual(rcall.q, rcall.ws[i])}

\* The number the backend's answer holds, NoNumber when the backend failed or
\* was not consulted.
AnswerNumber ==
    IF rcall.reached /\ rcall.llm.kind = "text" THEN ParseNumber(rcall.llm.text)
    ELSE NoNumber

\* The number of candidates presented to the backend.
Presented == Min(TopLimit, Len(rcall.ws))

\* A call over two or more working-set candidates that the deterministic
\* fallback decided: the backend was not consulted, failed, or its answer held
\* no number.
FallbackDecided ==
    /\ Resolved_Text
    /\ Len(rcall.ws) >= 2
    /\ AnswerNumber = NoNumber

\* C26 as stated: the exact fallback returns a candidate (exact_fallback) only
\* when exactly one working-set candidate is normalized-equal to the query; with
\* two or more normalized-equal candidates the first element of the working set
\* is returned (first_fallback).
C26_ExactOnlyWhenUnique ==
    FallbackDecided
    => /\ (rcall.method = "exact_fallback" => Cardinality(EqualPositions) = 1)
       /\ (Cardinality(EqualPositions) >= 2
              => rcall.id = rcall.ws[1] /\ rcall.method = "first_fallback")

\* C26 amended: the exact fallback returns the earliest working-set candidate
\* that is normalized-equal to the query (exact_fallback), whether one or several
\* candidates are; the first element of the working set is returned
\* (first_fallback) only when none is.
C26_FirstExactReturned ==
    FallbackDecided
    => /\ rcall.kind = "id"
       /\ IF EqualPositions = {}
          THEN rcall.id = rcall.ws[1] /\ rcall.method = "first_fallback"
          ELSE /\ rcall.method = "exact_fallback"
               /\ \E i \in EqualPositions :
                     /\ \A j \in EqualPositions : i <= j
                     /\ rcall.id = rcall.ws[i]

\* C26 witness: two candidates of the working set are normalized-equal to the
\* query, the first element is not, and the fallback returned the earlier of the
\* two.
C26_Witness ==
    /\ FallbackDecided
    /\ Cardinality(EqualPositions) >= 2
    /\ 1 \notin EqualPositions
    /\ rcall.method = "exact_fallback"
    /\ rcall.id # rcall.ws[1]
    /\ NormEqual(rcall.q, rcall.id)

\* The backend answered 0 ("no good match").
AnsweredZero == AnswerNumber = 0

\* The backend answered a valid 1-based index into the candidates presented.
AnsweredValid == AnswerNumber >= 1 /\ AnswerNumber <= Presented

\* C27: when the backend answers 0, or a valid index whose candidate does not
\* match the query, the exact-match search ranges over all the candidates
\* extracted: if no working-set candidate is normalized-equal to the query and
\* a "/websites/" candidate left out of the working set is, that candidate is
\* returned.
C27_FullSetSearched ==
    ( /\ Resolved_Text
      /\ Len(rcall.ws) >= 2
      /\ \/ AnsweredZero
         \/ AnsweredValid /\ ~NormEqual(rcall.q, rcall.ws[AnswerNumber])
      /\ EqualPositions = {}
      /\ \E i \in 1..Len(rcall.matches) :
            LowTrust(rcall.matches[i]) /\ NormEqual(rcall.q, rcall.matches[i]) )
    => /\ rcall.kind = "id"
       /\ InSeq(rcall.id, rcall.matches)
       /\ LowTrust(rcall.id)
       /\ NormEqual(rcall.q, rcall.id)

\* No candidate extracted from the response is normalized-equal to the query.
NoneEqual ==
    \A i \in 1..Len(rcall.matches) : ~NormEqual(rcall.q, rcall.matches[i])

\* C28: when the backend answers 0 and no candidate is normalized-equal to the
\* query, resolve_library returns the first candidate of the working set
\* (first_fallback), not the none result.
C28_ZeroFallsToFirst ==
    (Resolved_Text /\ Len(rcall.ws) >= 2 /\ AnsweredZero /\ NoneEqual)
    => /\ rcall.kind = "id"
       /\ rcall.id = rcall.ws[1]
       /\ rcall.method = "first_fallback"

\* C28 witness: the backend answered 0 over two or more candidates none of which
\* matches, and the first of them came back.
C28_Witness ==
    /\ Resolved_Text
    /\ Len(rcall.ws) >= 2
    /\ rcall.llm = LlmOutcome("text", <<"0">>)
    /\ NoneEqual
    /\ rcall.kind = "id"
    /\ rcall.id = rcall.ws[1]

\* C29: when the backend answers a valid 1-based index, a selected candidate
\* that is normalized-equal to the query is returned (llm_verified) even when
\* another candidate matches too; a selected candidate that is not, while no
\* candidate matches, is returned as well (llm_unverified).
C29_ValidIndex ==
    (Resolved_Text /\ Len(rcall.ws) >= 2 /\ AnsweredValid)
    => /\ NormEqual(rcall.q, rcall.ws[AnswerNumber])
          => /\ rcall.kind = "id"
             /\ rcall.id = rcall.ws[AnswerNumber]
             /\ rcall.method = "llm_verified"
       /\ (~NormEqual(rcall.q, rcall.ws[AnswerNumber]) /\ NoneEqual)
          => /\ rcall.kind = "id"
             /\ rcall.id = rcall.ws[AnswerNumber]
             /\ rcall.method = "llm_unverified"

\* C29 witness: the backend picked the second of two matching candidates, and
\* the pick, not the earlier match, was returned.
C29_Witness ==
    /\ Resolved_Text
    /\ AnsweredValid
    /\ AnswerNumber >= 2
    /\ NormEqual(rcall.q, rcall.ws[1])
    /\ NormEqual(rcall.q, rcall.ws[AnswerNumber])
    /\ rcall.ws[1] # rcall.ws[AnswerNumber]
    /\ rcall.id = rcall.ws[AnswerNumber]
    /\ rcall.method = "llm_verified"

\* C29 witness, second case: the pick does not match, nothing does, and the
\* pick (not the first candidate) was returned.
C29_WitnessUnverified ==
    /\ Resolved_Text
    /\ AnsweredValid
    /\ AnswerNumber >= 2
    /\ NoneEqual
    /\ rcall.id = rcall.ws[AnswerNumber]
    /\ rcall.id # rcall.ws[1]
    /\ rcall.method = "llm_unverified"

\* The backend's answer holds a number that is neither 0 nor a valid index.
AnsweredOutOfRange ==
    /\ AnswerNumber # NoNumber
    /\ ~AnsweredZero
    /\ ~AnsweredValid

\* What the same call returns when the backend's answer holds no number.
UnparseableResult ==
    ResolveLibrary(rcall.q, rcall.useLlm, rcall.key, rcall.resp,
                   LlmOutcome("text", <<"n", "o">>))

\* C30: an answer whose number is neither 0 nor within 1..N, N the number of
\* candidates presented (at most 15), is handled as an answer without a number:
\* the exact match when there is one, else the first working-set candidate.
C30_OutOfRangeIsUnparseable ==
    (Resolved_Text /\ Len(rcall.ws) >= 2 /\ AnsweredOutOfRange)
    => /\ rcall.kind = UnparseableResult.kind
       /\ rcall.id = UnparseableResult.id
       /\ rcall.method = UnparseableResult.method
       /\ rcall.kind = "id"
       /\ IF EqualPositions = {}
          THEN rcall.id = rcall.ws[1] /\ rcall.method = "first_fallback"
          ELSE NormEqual(rcall.q, rcall.id) /\ rcall.method = "exact_fallback"

\* C30 witness: sixteen candidates, fifteen presented, the backend answered 16,
\* the sixteenth does not come back: the first does.
C30_Witness ==
    /\ Resolved_Text
    /\ Len(rcall.ws) = TopLimit + 1
    /\ AnswerNumber = TopLimit + 1
    /\ EqualPositions = {}
    /\ rcall.id = rcall.ws[1]
    /\ rcall.id # rcall.ws[TopLimit + 1]
    /\ rcall.method = "first_fallback"

\* C30 witness, second case: an index beyond a short list, with an exact match
\* that is not the first candidate.
C30_WitnessExact ==
    /\ Resolved_Text
    /\ Len(rcall.ws) < TopLimit
    /\ AnswerNumber > Len(rcall.ws)
    /\ 1 \notin EqualPositions
    /\ rcall.method = "exact_fallback"
    /\ NormEqual(rcall.q, rcall.id)

(***************************************************************************)
(* Transport errors, session descriptors and the stage telemetry (Spec)    *)
(***************************************************************************)
\* What the run keeps of resolve_library when the source service answers with a
\* text that announces no candidate.
EmptyResolve ==
    Resolved(ResolveLibrary(req.library_name, TRUE, env.key,
                            Response("text", <<>>), NotConsulted))

\* The source service answered the resolution with a transport error or with
\* no candidate; it answered the fetch with a transport error or with no text.
ResolveCameBackEmpty ==
    \/ net.resolve \in {"transport_error", "no_content", "content_empty"}
    \/ net.resolve = "text" /\ lib.kind = "none"

FetchCameBackEmpty == net.fetch \in {"transport_error", "no_text"}

\* C24: a transport error from the source service is handled as an empty
\* result: resolve_library gives the none result as for a response without
\* candidates, get_docs gives empty text as for a response without text, and
\* the run returns the same "not found" (or "no documentation") result, after
\* the same requests, in both cases of each pair.
C24_TransportErrorAsEmpty ==
    /\ net.resolve = "transport_error"
       => lib = EmptyResolve /\ lib.kind = "none" /\ lib.id = NoId
    /\ net.fetch = "transport_error"
       => docs = GetDocs("no_text") /\ docs.kind = "return" /\ docs.text = <<>>
    /\ (Returned /\ ResolveCameBackEmpty)
       => /\ out = [NoOut EXCEPT !.kind = "not_found", !.from = "resolving"]
          /\ TimesIssued("resolve") = 1
          /\ ~Issued("fetch") /\ ~Issued("store")
    /\ (Returned /\ FetchCameBackEmpty)
       => /\ out = NoDocsResult(lib.id)
          /\ TimesIssued("fetch") = 1
          /\ ~Issued("store")

\* C24 witness: the resolution met a transport error and the run returned the
\* "not found" result.
C24_Witness ==
    /\ Returned
    /\ net.resolve = "transport_error"
    /\ out.kind = "not_found"

\* C24 witnesses: the other case of the pair, and the two cases of the fetch.
C24_WitnessNoCandidates ==
    /\ Returned
    /\ net.resolve = "text"
    /\ lib.kind = "none"
    /\ out.kind = "not_found"

C24_WitnessFetchError ==
    /\ Returned
    /\ net.fetch = "transport_error"
    /\ out.kind = "no_docs"
    /\ out.id = lib.id

C24_WitnessFetchNoText ==
    /\ Returned
    /\ net.fetch = "no_text"
    /\ out.kind = "no_docs"
    /\ out.id = lib.id

\* The positions in the run's log of the requests to the history store.
SessionOps == {i \in 1..Len(ops) : ops[i].op \in {"memory_search", "store"}}

\* User ids to compare a run's descriptor with: the empty id and every id of one
\* or two of the letters used in UserIds.
OtherUserIds == SeqsUpTo({"u", "v"}, 2)

\* C25: the session descriptor is a function of user_id alone: the memory search
\* and the memory store of a run carry the same descriptor, built from the run's
\* user_id and nothing else, and its group and session keys differ from those of
\* every other user_id.
C25_SessionPerUser ==
    /\ \A i \in SessionOps :
          /\ ops[i].session.group_id = DocAgentPrefix \o req.user_id
          /\ ops[i].session.session_id = DocSessionPrefix \o req.user_id
          /\ ops[i].session.user_id = <<req.user_id>>
          /\ ops[i].session.agent_id = <<"doc_injection_agent">>
    /\ \A i, j \in SessionOps : ops[i].session = ops[j].session
    /\ \A i \in SessionOps : \A v \in OtherUserIds \ {req.user_id} :
          /\ ops[i].session.group_id # CreateSessionData(v).group_id
          /\ ops[i].session.session_id # CreateSessionData(v).session_id

\* C25 witness: a run that searched and stored, both under its user's keys.
C25_Witness ==
    /\ Returned
    /\ out.kind = "docs"
    /\ Cardinality(SessionOps) = 2
    /\ \E i, j \in SessionOps :
          /\ ops[i].op = "memory_search"
          /\ ops[j].op = "store"
          /\ ops[i].session = ops[j].session
          /\ ops[i].session.group_id = DocAgentPrefix \o req.user_id

\* The run returned the documentation.
Done == Returned /\ out.kind = "docs"

\* The positions of the calls of the given operation in the run's log.
Positions(op) == {i \in 1..Len(ops) : ops[i].op = op}

\* The durations a summary of the session carries.
SummaryTimes == {"total_time", "memory_time", "context7_time", "store_time"}

\* C22 as stated: every run that returned the documentation has emitted, after
\* the store and before returning, one summary event with the total duration
\* and the memory-lookup, source and store durations.
C22_SummaryEmitted ==
    Done
    => /\ Cardinality(Positions("trace_session")) = 1
       /\ \A i \in Positions("trace_session") :
             /\ ops[i].emitted
             /\ SummaryTimes \subseteq ops[i].times
             /\ \A j \in Positions("store") : j < i

\* C22 amended: in every run that returned the documentation with a telemetry
\* client present, the recorder was called once for the summary of the session,
\* after the store and its trace and as the last operation before the response
\* is built, with the total, memory-lookup, source and store durations; the
\* event is emitted exactly when the sink is configured and its call does not
\* fail. Without a telemetry client no summary is recorded.
C22_SummaryRecorded ==
    Done
    => IF env.opik = "absent"
       THEN Positions("trace_session") = {}
       ELSE /\ Positions("trace_session") = {Len(ops)}
            /\ ops[Len(ops)].times = SummaryTimes
            /\ ops[Len(ops)].success
            /\ ops[Len(ops)].id = lib.id
            /\ ops[Len(ops)].emitted <=> env.opik = "working"
            /\ Positions("store") # {}
            /\ \A j \in Positions("store") \cup Positions("trace_memory_store") :
                  j < Len(ops)

\* C22 witness: a run with a working sink returned the documentation after the
\* summary was emitted.
C22_Witness ==
    /\ Done
    /\ env.opik = "working"
    /\ ops[Len(ops)].op = "trace_session"
    /\ ops[Len(ops)].emitted
    /\ ops[Len(ops)].times = SummaryTimes

\* C22 witness, second case: the documentation is returned although the sink
\* received no summary.
C22_WitnessNotEmitted ==
    /\ Done
    /\ env.opik = "unconfigured"
    /\ ops[Len(ops)].op = "trace_session"
    /\ ~ops[Len(ops)].emitted

\* The memory search of the run is over: it returned or it raised.
SearchOver == net.mem # "unset"

\* The run has left the memory-lookup stage: the search is over and its trace
\* call, when one is made, has been made.
LeftMemoryLookup == SearchOver /\ pc # "memory_trace"

\* C23: in every started run with a working telemetry sink, once the search is
\* over (context found, nothing found, or failed) an event for the memory-search
\* stage has been emitted, after the search and before any request of the
\* resolution.
C23_SearchEventEmitted ==
    (LeftMemoryLookup /\ env.opik = "working")
    => \E i \in Positions("trace_memory_search") :
          /\ ops[i].emitted
          /\ \A j \in Positions("memory_search") : j < i
          /\ \A j \in Positions("resolve") \cup Positions("arbitrate") : i < j

(***************************************************************************)
(* Concurrent runs of get_library_docs in one server process               *)
(*                                                                         *)
(* main() initialises the clients and then serves requests; every request  *)
(* runs get_library_docs with its own arguments and locals. The stages of  *)
(* the runs in progress may interleave in any order; the only things runs  *)
(* have in common are the three client handles (env) and the collaborators *)
(* behind them, whose responses the environment draws for each request.    *)
(***************************************************************************)
\* Mutant of ClientsAfterStage: the error handler drops the telemetry client.
ClientsAfterStageResetting(e, stage) ==
    IF stage = "except" THEN [e EXCEPT !.opik = "absent"] ELSE e

\* get_library_docs has no "global" statement and assigns none of
\* context7_client, memmachine_client, opik_client, and the clients' methods
\* assign no attribute of self: after any stage of a run the handles are as
\* they were.
ClientsAfterStage(e, stage) == e

\* The inputs of the concurrent runs: the library names, the responses of the
\* history store, of the source service and of the arbitration backend.
ConcQueries == {Q_fa, Q_dash}

ConcMemResponses ==
    {MemResponse("malformed", <<>>, <<>>),
     MemResponse("ok", <<>>, <<>>),
     MemResponse("ok", <<"e1">>, <<"p1">>)}

ConcResponses ==
    {Response("transport_error", <<>>),
     Response("item_not_object", <<>>),
     Response("text", <<Line(TRUE, <<"/", "c", "/", "f", "_", "b">>),
                        Line(TRUE, <<"/", "a", "/", "f", "a">>)>>)}

ConcBackendOutcomes(q, key, resp) ==
    BackendOutcomes(q, TRUE, key, resp)
    \cap {NotConsulted, LlmOutcome("api_error", <<>>), LlmOutcome("text", <<"1">>)}

ConcDocResponses == {"no_text", "item_not_object", "text"}

\* Run r takes a step of the given stage and becomes rec; nothing else of the
\* process changes.
RunStep(r, stage, rec) ==
    /\ runs' = [runs EXCEPT ![r] = rec]
    /\ env' = ClientsAfterStage(env, stage)
    /\ UNCHANGED <<pc, req, similar, lib, docs, store, timed, ops, out, rcall, net,
                   pcall, lcall>>

\* initialize_clients(), called by main() before the server accepts requests.
ServerInitializeClients ==
    /\ \A r \in RunIds : runs[r].pc = "idle"
    /\ InitializeClients

\* The run as get_library_docs(name, topic, user) leaves it after the client
\* check.
AfterCall(e, run, name, topic, user) ==
    LET called == [run EXCEPT !.req = [library_name |-> name, topic |-> topic,
                                       user_id |-> user]]
    IN  IF ClientsMissing(e)
        THEN [called EXCEPT !.out = [NoOut EXCEPT !.kind = "not_available",
                                                  !.from = "start"],
                            !.pc = "returned"]
        ELSE [called EXCEPT !.pc = "memory_lookup"]

\* The run after step 1, the memory search, answered by mresp.
AfterSearchMemory(run, mresp) ==
    LET r == SearchSimilarQueries(mresp)
    IN  [run EXCEPT
            !.similar = r,
            !.pc = IF r.kind = "raise" THEN "except" ELSE "memory_trace",
            !.timed = IF r.kind = "raise" THEN @ ELSE @ \cup {"memory_time"},
            !.out = IF r.kind = "raise" THEN [@ EXCEPT !.from = "memory_lookup"]
                    ELSE @,
            !.got = [@ EXCEPT !.mem = mresp],
            !.ops = Append(@, External("memory_search",
                                       CreateSessionData(run.req.user_id)))]

\* The run after a guarded trace call made at the stage `from`: to the error
\* handler when the call raises, else on to `to` with the result `result`.
AfterTrace(e, run, log, from, to, result) ==
    IF TraceRaises(e.opik)
    THEN [run EXCEPT !.ops = log, !.pc = "except",
                     !.out = [@ EXCEPT !.from = from]]
    ELSE [run EXCEPT !.ops = log, !.pc = to, !.out = result]

\* The run after the trace of the search.
AfterTraceSearch(e, run) ==
    AfterTrace(e, run, SearchTrace(e.opik, run.ops, run.similar),
               "memory_lookup", "resolving", run.out)

\* The run after step 2, resolve_library, with the source service answering
\* resp and the arbitration backend llm.
AfterResolve(e, run, resp, llm) ==
    LET r == Resolved(ResolveLibrary(run.req.library_name, TRUE, e.key, resp, llm))
    IN  [run EXCEPT
            !.lib = r,
            !.got = [@ EXCEPT !.resolve = resp, !.llm = llm],
            !.ops = @ \o [i \in 1..r.httpCalls |-> External("resolve", NoSession)]
                      \o [i \in 1..r.llmCalls |-> External("arbitrate", NoSession)],
            !.pc = ResolveBranch(r.kind),
            !.out = IF r.kind = "raise" THEN [@ EXCEPT !.from = "resolving"] ELSE @]

\* The run after "if not library_id": traced and returned.
AfterReturnNotFound(e, run) ==
    AfterTrace(e, run, NotFoundTrace(e.opik, run.ops), "resolving", "returned",
               [NoOut EXCEPT !.kind = "not_found", !.from = "resolving"])

\* The run after get_docs, answered by dresp.
AfterFetch(run, dresp) ==
    LET r == GetDocs(dresp)
    IN  [run EXCEPT
            !.docs = r,
            !.pc = IF r.kind = "raise" THEN "except" ELSE "fetch_trace",
            !.timed = IF r.kind = "raise" THEN @ ELSE @ \cup {"context7_time"},
            !.out = IF r.kind = "raise" THEN [@ EXCEPT !.from = "fetching"] ELSE @,
            !.got = [@ EXCEPT !.fetch = dresp],
            !.ops = Append(@, Op("fetch", FALSE, run.lib.id, "", {}, FALSE,
                                 NoSession, ""))]

\* The run after the trace of the fetch and "if not docs".
AfterTraceFetch(e, run) ==
    AfterTrace(e, run, FetchTrace(e.opik, run.ops, run.lib.id, run.docs.text),
               "fetching",
               IF run.docs.text = <<>> THEN "returned" ELSE "storing",
               IF run.docs.text = <<>> THEN NoDocsResult(run.lib.id) ELSE run.out)

\* The run after step 3, the store, answered by sresp.
AfterStore(run, sresp) ==
    [run EXCEPT
        !.store = IF StoreRetrievalSession(sresp) THEN "true" ELSE "false",
        !.got = [@ EXCEPT !.store = sresp],
        !.ops = Append(@, Op("store", run.docs.text # <<>>, run.lib.id, "",
                             {"context7_time", "memory_time"}, FALSE,
                             CreateSessionData(run.req.user_id), "")),
        !.timed = @ \cup {"store_time"},
        !.pc = "store_trace"]

\* The run after the trace of the store.
AfterTraceStore(e, run) ==
    AfterTrace(e, run,
               Record(e.opik, run.ops, "trace_memory_store", run.store = "true",
                      NoId, "", {"store_time"}),
               "storing", "session_trace", run.out)

\* The run after step 4, the summary trace.
AfterTraceSession(e, run) ==
    AfterTrace(e, run, SessionTrace(e.opik, run.ops, run.lib.id, run.docs.text),
               "summary", "respond", run.out)

\* The run after step 5, the response.
AfterBuildResponse(run) ==
    LET c == IF run.similar.has_context
             THEN BuildContextPromptCall(run.similar.episodic_memory,
                                         run.similar.is_list,
                                         run.similar.profile_memory,
                                         QueryText(run.req))
             ELSE PromptCall("return", <<>>, <<>>, <<>>, <<>>)
    IN  IF c.kind = "raise"
        THEN [run EXCEPT !.out = [@ EXCEPT !.from = "respond"], !.pc = "except"]
        ELSE [run EXCEPT
                 !.out = [kind |-> "docs", from |-> "respond", id |-> run.lib.id,
                          docs |-> run.docs.text, context |-> c.text,
                          times |-> {"context7_time", "memory_time", "total_time"}],
                 !.pc = "returned"]

\* The run after "except Exception".
AfterHandleException(e, run) ==
    [run EXCEPT
        !.ops = Record(e.opik, @, "trace_session", FALSE, ErrorId, "exception",
                       {"total_time"}),
        !.out = [@ EXCEPT !.kind = IF TraceRaises(e.opik) THEN "raised"
                                   ELSE "error"],
        !.pc = "returned"]

\* A request arrives: a run of get_library_docs starts.
RunCall ==
    \E r \in RunIds :
        /\ runs[r].pc = "idle"
        /\ \E name \in ConcQueries :
              RunStep(r, "idle", AfterCall(env, runs[r], name, <<>>, <<"u">>))

RunSearchMemory ==
    \E r \in RunIds :
        /\ runs[r].pc = "memory_lookup"
        /\ \E mresp \in ConcMemResponses :
              RunStep(r, "memory_lookup", AfterSearchMemory(runs[r], mresp))

RunTraceSearch ==
    \E r \in RunIds :
        /\ runs[r].pc = "memory_trace"
        /\ RunStep(r, "memory_trace", AfterTraceSearch(env, runs[r]))

RunResolve ==
    \E r \in RunIds :
        /\ runs[r].pc = "resolving"
        /\ \E resp \in ConcResponses :
           \E llm \in ConcBackendOutcomes(runs[r].req.library_name, env.key, resp) :
              RunStep(r, "resolving", AfterResolve(env, runs[r], resp, llm))

RunReturnNotFound ==
    \E r \in RunIds :
        /\ runs[r].pc = "not_found"
        /\ RunStep(r, "not_found", AfterReturnNotFound(env, runs[r]))

RunFetch ==
    \E r \in RunIds :
        /\ runs[r].pc = "fetching"
        /\ \E dresp \in ConcDocResponses :
              RunStep(r, "fetching", AfterFetch(runs[r], dresp))

RunTraceFetch ==
    \E r \in RunIds :
        /\ runs[r].pc = "fetch_trace"
        /\ RunStep(r, "fetch_trace", AfterTraceFetch(env, runs[r]))

RunStore ==
    \E r \in RunIds :
        /\ runs[r].pc = "storing"
        /\ \E sresp \in StoreResponses :
              RunStep(r, "storing", AfterStore(runs[r], sresp))

RunTraceStore ==
    \E r \in RunIds :
        /\ runs[r].pc = "store_trace"
        /\ RunStep(r, "store_trace", AfterTraceStore(env, runs[r]))

RunTraceSession ==
    \E r \in RunIds :
        /\ runs[r].pc = "session_trace"
        /\ RunStep(r, "session_trace", AfterTraceSession(env, runs[r]))

RunBuildResponse ==
    \E r \in RunIds :
        /\ runs[r].pc = "respond"
        /\ RunStep(r, "respond", AfterBuildResponse(runs[r]))

RunHandleException ==
    \E r \in RunIds :
        /\ runs[r].pc = "except"
        /\ RunStep(r, "except", AfterHandleException(env, runs[r]))

NextConcurrent ==
    \/ ServerInitializeClients
    \/ RunCall
    \/ RunSearchMemory
    \/ RunTraceSearch
    \/ RunResolve
    \/ RunReturnNotFound
    \/ RunFetch
    \/ RunTraceFetch
    \/ RunStore
    \/ RunTraceStore
    \/ RunTraceSession
    \/ RunBuildResponse
    \/ RunHandleException

\* The server with its runs in progress, their stages interleaved.
SpecConcurrent == Init /\ [][NextConcurrent]_vars

RECURSIVE Alone(_, _, _)
\* The run as it ends when its remaining stages execute one after the other
\* with no other run in progress, each collaborator answering what `got` holds.
Alone(e, run, got) ==
    IF run.pc = "returned" THEN run
    ELSE Alone(e,
               CASE run.pc = "memory_lookup" -> AfterSearchMemory(run, got.mem)
                 [] run.pc = "memory_trace" -> AfterTraceSearch(e, run)
                 [] run.pc = "resolving" -> AfterResolve(e, run, got.resolve, got.llm)
                 [] run.pc = "not_found" -> AfterReturnNotFound(e, run)
                 [] run.pc = "fetching" -> AfterFetch(run, got.fetch)
                 [] run.pc = "fetch_trace" -> AfterTraceFetch(e, run)
                 [] run.pc = "storing" -> AfterStore(run, got.store)
                 [] run.pc = "store_trace" -> AfterTraceStore(e, run)
                 [] run.pc = "session_trace" -> AfterTraceSession(e, run)
                 [] run.pc = "respond" -> AfterBuildResponse(run)
                 [] run.pc = "except" -> AfterHandleException(e, run),
               got)

\* The run with the arguments of r, called with no other run in progress and
\* given the responses r received.
RunAlone(r) ==
    Alone(env,
          AfterCall(env, NoRun, runs[r].req.library_name, runs[r].req.topic,
                    runs[r].req.user_id),
          runs[r].got)

\* A run has ended.
Ended(r) == runs[r].pc = "returned"

\* The ended runs end as they would alone: same position, same identifier and
\* document, same returned value, same requests and recorder calls.
EndAsAlone == \A r \in RunIds : Ended(r) => runs[r] = RunAlone(r)

\* A step of a run leaves the process-scoped client handles as they are.
RunsLeaveClients == (runs' # runs) => (env' = env)

\* C21: concurrent runs of get_library_docs are independent: under every
\* interleaving of the stages of two runs no stage of a run writes the
\* process-scoped state, and a run ends with the state, the identifier, the
\* document and the returned value that the same call ends with when it runs
\* alone and receives the same responses from the collaborators.
C21_RunsIndependent == []EndAsAlone /\ [][RunsLeaveClients]_vars

\* C21 witness: two runs for the same library are in progress at once, one past
\* its store, the other at the trace of its fetch.
C21_Witness ==
    /\ runs["a"].pc = "respond"
    /\ runs["b"].pc = "fetch_trace"
    /\ runs["a"].req = runs["b"].req

\* C21 witness, at the end: the two runs, called with the same arguments, have
\* ended differently, each according to the responses it received.
C21_WitnessEnded ==
    /\ Ended("a") /\ Ended("b")
    /\ runs["a"].req = runs["b"].req
    /\ runs["a"].out.kind = "docs"
    /\ runs["b"].out.kind = "error"
    /\ runs["b"].got.mem.kind = "malformed"
    /\ runs["a"] = RunAlone("a")

(***************************************************************************)
(* The candidates presented, extraction and the working set (SpecResolver) *)
(***************************************************************************)
\* The completion call of the arbitration was made.
BackendCalled == Resolved_Text /\ rcall.llmCalls > 0

\* The identifier returned stands among the candidates presented.
ReturnedIsPresented ==
    \E i \in 1..Presented : rcall.ws[i] = rcall.id

\* C31: the backend is presented the first min(15, n) candidates of the working
\* set in their order and nothing else; an answer i in 1..min(15, n) whose pick
\* is returned as the backend's choice returns the i-th working-set candidate;
\* a candidate that stands only at position 16 or later is returned by the
\* exact-match search alone.
C31_OnlyFirstFifteenPresented ==
    BackendCalled
    => /\ Len(rcall.shown) = Presented
       /\ \A i \in 1..Presented : rcall.shown[i] = rcall.ws[i]
       /\ rcall.method \in {"llm_verified", "llm_unverified"}
          => /\ AnsweredValid
             /\ rcall.id = rcall.ws[AnswerNumber]
       /\ (rcall.kind = "id" /\ ~ReturnedIsPresented)
          => /\ rcall.method = "exact_fallback"
             /\ NormEqual(rcall.q, rcall.id)

\* C31 witness: sixteen candidates, fifteen presented, the backend answered 16,
\* and the sixteenth came back, found by the exact-match search.
C31_Witness ==
    /\ BackendCalled
    /\ Len(rcall.ws) = TopLimit + 1
    /\ Len(rcall.shown) = TopLimit
    /\ AnswerNumber = TopLimit + 1
    /\ rcall.id = rcall.ws[TopLimit + 1]
    /\ ~ReturnedIsPresented
    /\ rcall.method = "exact_fallback"

\* C31 witness, second case: the backend answered 15 over sixteen candidates
\* and its pick, the fifteenth, came back.
C31_WitnessLastPresented ==
    /\ BackendCalled
    /\ Len(rcall.ws) = TopLimit + 1
    /\ AnswerNumber = TopLimit
    /\ rcall.id = rcall.ws[TopLimit]
    /\ rcall.method \in {"llm_verified", "llm_unverified"}

(***************************************************************************)
(* The layout of the prompt (SpecPrompt)                                   *)
(***************************************************************************)
\* The positions of the parts with the given label in the text of the first
\* direct call, and the entries those parts render, in order.
PartsAt(label) ==
    {i \in 1..Len(pcall.first.text) : pcall.first.text[i].label = label}

IsProfilePart(p) == p.label = "str"

IsEpisodePart(p) == p.label = "Past Query"

Entries(parts) == [i \in 1..Len(parts) |-> parts[i].entry]

\* The direct call was given context: a profile entry or an episode.
CarriesContext == pcall.done /\ (pcall.episodic # <<>> \/ pcall.profile # <<>>)

\* C32: when the record carries context build_context_prompt renders every
\* profile entry, in order, then the first three episodic entries at most, in
\* order and numbered from 1, then the current query once; an episode past the
\* third is not rendered.
C32_PromptLayout ==
    CarriesContext
    => /\ pcall.first.kind = "return"
       /\ Entries(SelectSeq(pcall.first.text, IsProfilePart)) = pcall.profile
       /\ Entries(SelectSeq(pcall.first.text, IsEpisodePart))
             = SubSeq(pcall.episodic, 1, Min(3, Len(pcall.episodic)))
       /\ \A i \in PartsAt("Past Query") :
             pcall.first.text[i].entry = pcall.episodic[pcall.first.text[i].n]
       /\ Cardinality(PartsAt("Past Query")) <= 3
       /\ Cardinality(PartsAt("Current query: ")) = 1
       /\ PartsAt("Query: ") = {}
       /\ \A i \in PartsAt("Current query: ") :
             /\ pcall.first.text[i].query = pcall.query
             /\ \A j \in PartsAt("str") \cup PartsAt("Past Query") : j < i
       /\ \A i \in PartsAt("str") : \A j \in PartsAt("Past Query") : i < j

\* C32 witness: four episodes and a profile entry were given; the fourth
\* episode differs from the first three and is not in the text.
C32_Witness ==
    /\ CarriesContext
    /\ Len(pcall.episodic) = 4
    /\ pcall.profile # <<>>
    /\ \A i \in 1..3 : pcall.episodic[i] # pcall.episodic[4]
    /\ Cardinality(PartsAt("Past Query")) = 3
    /\ \A i \in 1..Len(pcall.first.text) :
          pcall.first.text[i].entry # pcall.episodic[4]

\* The characters an identifier is made of.
IdAlphabet ==
    {"a", "b", "c", "d", "e", "f", "i", "s", "t", "w", "x", "z", "A", "F",
     "0", "1", "2", "3", "4", "5", "6", "7", "8", "9", "_", "-", "/"}

RECURSIVE IdPrefix(_)
\* The identifier characters a string begins with.
IdPrefix(s) ==
    IF s = <<>> \/ Head(s) \notin IdAlphabet THEN <<>>
    ELSE <<Head(s)>> \o IdPrefix(Tail(s))

\* A well-formed line announces an identifier: the literal, then "/" and at
\* least one more identifier character.
WellFormed(l) ==
    /\ l.announce
    /\ l.rest # <<>>
    /\ Head(l.rest) = "/"
    /\ Len(IdPrefix(l.rest)) >= 2

RECURSIVE Announced(_)
\* The identifiers the well-formed lines of a text announce, in text order.
Announced(text) ==
    IF text = <<>> THEN <<>>
    ELSE (IF WellFormed(Head(text)) THEN <<IdPrefix(Head(text).rest)>> ELSE <<>>)
         \o Announced(Tail(text))

\* C33: candidate extraction does not raise and yields exactly the identifiers
\* that the well-formed lines of the source text announce, in their order;
\* other lines are left out, and a text without a well-formed line gives the
\* empty candidate sequence and the none result, not an error.
C33_ExtractionTotal ==
    Resolved_Text
    => /\ rcall.kind \in {"id", "none"}
       /\ rcall.matches = Announced(rcall.resp.text)
       /\ (\A i \in 1..Len(rcall.resp.text) : ~WellFormed(rcall.resp.text[i]))
          => rcall.matches = <<>> /\ rcall.kind = "none"

\* C33 witness: a text of three lines of which one announces no identifier and
\* one is no announcement at all; the one identifier announced is extracted.
C33_Witness ==
    /\ Resolved_Text
    /\ Len(rcall.resp.text) = 3
    /\ \E i, j, k \in 1..3 :
          /\ rcall.resp.text[i].announce /\ ~WellFormed(rcall.resp.text[i])
          /\ ~rcall.resp.text[j].announce
          /\ WellFormed(rcall.resp.text[k])
          /\ rcall.matches = <<IdPrefix(rcall.resp.text[k].rest)>>
    /\ rcall.kind = "id"

\* C33 witness, second case: lines, none of them well formed: no candidate, the
\* none result.
C33_WitnessNone ==
    /\ Resolved_Text
    /\ Len(rcall.resp.text) >= 2
    /\ \A i \in 1..Len(rcall.resp.text) : ~WellFormed(rcall.resp.text[i])
    /\ rcall.matches = <<>>
    /\ rcall.kind = "none"

\* The distinct identifiers among the candidates of a sequence.
Distinct(seq) == {seq[i] : i \in 1..Len(seq)}

\* C34: extraction yields a set of candidates: an identifier announced by
\* several lines stands once in the candidate collection, so a response whose
\* working set holds a single distinct identifier, however often announced,
\* resolves by the single-match rule, without arbitration.
C34_CandidatesAreASet ==
    Resolved_Text
    => /\ \A i, j \in 1..Len(rcall.matches) :
             rcall.matches[i] = rcall.matches[j] => i = j
       /\ Cardinality(Distinct(rcall.ws)) = 1
          => /\ rcall.method = "single"
             /\ rcall.llmCalls = 0

(***************************************************************************)
(* Timeouts, the store and the order of the operations (Spec)              *)
(***************************************************************************)
\* C35: every external call a run makes (memory search, source resolve,
\* arbitration backend call, document fetch, memory store) is issued with an
\* explicit timeout, which is what lets every started run return once each call
\* has returned or timed out.
C35_ExplicitTimeouts ==
    \A i \in 1..Len(ops) :
        ops[i].op \in ExternalOps => ExplicitTimeout(ops[i].op) # {}

\* C36: an identifier returned by resolve_library is a member of the working
\* set, and when the source response holds a candidate not starting with
\* "/websites/" the identifier returned does not start with "/websites/",
\* whatever the arbitration backend answers and whichever fallback decides.
C36_ReturnedInWorkingSet ==
    (rcall.done /\ rcall.kind = "id")
    => /\ InSeq(rcall.id, rcall.ws)
       /\ (\E i \in 1..Len(rcall.matches) : ~LowTrust(rcall.matches[i]))
          => ~LowTrust(rcall.id)

\* A response whose first candidate is a website, arbitrated by the backend.
C36_Witness ==
    /\ rcall.done
    /\ rcall.kind = "id"
    /\ Len(rcall.matches) >= 3
    /\ LowTrust(rcall.matches[1])
    /\ rcall.llmCalls > 0
    /\ rcall.method \in {"llm_verified", "llm_unverified"}
    /\ ~LowTrust(rcall.id)

\* The same with the backend failing: the fallback decides.
C36_WitnessFallback ==
    /\ rcall.done
    /\ rcall.kind = "id"
    /\ Len(rcall.matches) >= 3
    /\ LowTrust(rcall.matches[1])
    /\ rcall.llmCalls > 0
    /\ rcall.method \in {"exact_fallback", "first_fallback"}
    /\ ~LowTrust(rcall.id)

\* Websites only: the working set is all of them and a website is returned.
C36_WitnessWebsitesOnly ==
    /\ rcall.done
    /\ rcall.kind = "id"
    /\ LowTrust(rcall.id)
    /\ InSeq(rcall.id, rcall.ws)

\* The run has invoked store_retrieval_session.
StoreInvoked == Positions("store") # {}

\* The store is invoked only after a non-empty identifier and non-empty text.
StoreOnlyAfterFetch ==
    StoreInvoked => (lib.kind = "id" /\ lib.id # NoId /\ docs.text # <<>>)

\* The runs that end without the documentation: not configured, or a failure.
EndedWithoutDocs ==
    Returned /\ out.kind \in (FailureKinds \cup {"not_available"})

\* C37: store_retrieval_session is invoked only in runs where resolution
\* produced a non-empty identifier and the fetch produced non-empty text, and
\* no run that ends in a failure (or not configured) has written an episode to
\* the history store.
C37_NoEpisodeFromFailedRun ==
    /\ StoreOnlyAfterFetch
    /\ EndedWithoutDocs => store # "true"

\* The part of C37 that holds: the store follows a non-empty identifier and
\* text, and the runs that end "not found", "no documentation" or "not
\* available" have invoked no store.
C37_NotFoundRunsStoreNothing ==
    /\ StoreOnlyAfterFetch
    /\ (Returned /\ out.kind \in {"not_found", "no_docs", "not_available"})
       => (~StoreInvoked /\ store = "unset")

\* A run that wrote its episode and then ended in the error result.
C37_StoredThenFailed ==
    /\ Returned
    /\ out.kind = "error"
    /\ out.from = "respond"
    /\ store = "true"

\* The operations of a run whose order C38 fixes.
OrderedOps == <<"memory_search", "resolve", "fetch", "store", "trace_session">>

\* Every occurrence of the first operation precedes every occurrence of the second.
Precedes(first, second) ==
    \A i \in Positions(first), j \in Positions(second) : i < j

\* C38: within a run the memory search, the source resolve, the document fetch,
\* the memory store and the final summary trace occur in that order; the fetch is issued only once resolution has produced a
\* non-empty identifier, and the store only once the fetch has returned.
C38_FixedOrder ==
    /\ \A a \in 1..Len(OrderedOps) :
          \A b \in (a + 1)..Len(OrderedOps) :
              Precedes(OrderedOps[a], OrderedOps[b])
    /\ Positions("resolve") # {} => Positions("memory_search") # {}
    /\ Positions("fetch") # {} =>
          /\ Positions("resolve") # {}
          /\ lib.kind = "id"
          /\ lib.id # NoId
    /\ Positions("store") # {} =>
          /\ Positions("fetch") # {}
          /\ docs.kind = "return"

\* A run in which all five operations were issued.
C38_Witness ==
    /\ Returned
    /\ \A a \in 1..Len(OrderedOps) : Positions(OrderedOps[a]) # {}
    /\ Positions("arbitrate") # {}

\* A run that ended before the fetch: resolution produced no identifier.
C38_WitnessNoFetch ==
    /\ Returned
    /\ Positions("resolve") # {}
    /\ lib.kind = "none"
    /\ Positions("fetch") = {}

(***************************************************************************)
(* resolve_library_with_llm called directly (SpecArbiter)                  *)
(***************************************************************************)
\* A direct call of resolve_library_with_llm with an empty candidate list ended.
CalledWithNone == lcall.done /\ lcall.matches = <<>>

\* C39: resolve_library_with_llm called with an empty candidate list returns
\* None without raising, whether or not a backend key is configured and
\* whatever the backend answers.
C39_EmptyListReturnsNone == CalledWithNone => lcall.kind = "none"

\* The part of C39 that holds: without a backend key the empty list gives None,
\* and no call on an empty list returns an identifier.
C39_EmptyListWithoutKey ==
    CalledWithNone => /\ lcall.kind # "id"
                      /\ ~lcall.key => lcall.kind = "none"

\* With a key, the backend answering "0": the call raises.
C39_RaisedOnEmptyList ==
    /\ CalledWithNone
    /\ lcall.key
    /\ lcall.llm.kind = "text"
    /\ lcall.llm.text = <<"0">>
    /\ lcall.kind = "raise"

====
